---- MODULE Spec2Model ----
(***************************************************************************)
(* PVECLIB soft-float binary128 operations (src/src/pveclib/               *)
(* vec_f128_ppc.h), POWER8 (non-_ARCH_PWR9) code paths.                    *)
(*                                                                         *)
(* A 128-bit vector register is the set of the positions of its one bits,  *)
(* position 0 being the least significant bit of the quadword and 127 the  *)
(* sign bit of a __binary128.  Vector elements use the big-endian element  *)
(* numbering of the source: doubleword 0 (VEC_DW_H) is bits 64..127,       *)
(* word 1 (VEC_WE_1) is bits 64..95, halfword 0 (VEC_HW_H) is bits         *)
(* 112..127, byte 0 (VEC_BYTE_H) is bits 120..127.  No value is ever held  *)
(* as an integer wider than 20 bits, so every operation keeps the width    *)
(* the register gives it.                                                  *)
(***************************************************************************)
EXTENDS Integers, FiniteSets, Sequences, TLC

VARIABLES pc, op, vfa, vfb, result

vars == <<pc, op, vfa, vfb, result>>

(***************************************************************************)
(* Bit-set helpers.                                                        *)
(***************************************************************************)
QW == 0..127

Pow2Tab == <<1, 2, 4, 8, 16, 32, 64, 128, 256, 512, 1024, 2048, 4096, 8192,
             16384, 32768, 65536, 131072, 262144, 524288, 1048576>>

Pow2(n) == Pow2Tab[n + 1]

\* the greatest element of a nonempty set of positions below 2^16
RECURSIVE MaxIn(_, _, _)
MaxIn(S, lo, hi) ==
  IF lo = hi THEN lo
  ELSE LET mid == (lo + hi + 1) \div 2
       IN  IF \E x \in S : x >= mid THEN MaxIn(S, mid, hi) ELSE MaxIn(S, lo, mid - 1)

MaxOf(S) == IF \E x \in S : x >= 128 THEN MaxIn(S, 128, 65535) ELSE MaxIn(S, 0, 127)

\* bits lo..lo+w-1 of v, moved down to 0..w-1
Field(v, lo, w) == {i - lo : i \in {j \in v : j >= lo /\ j < lo + w}}

ShiftUp(v, n) == {i + n : i \in v}

ShiftDown(v, n) == {i - n : i \in {j \in v : j >= n}}

\* the integer held in byte k (bits 8k..8k+7) of v
ByteOf(v, k) ==
  (IF 8 * k \in v THEN 1 ELSE 0) + (IF 8 * k + 1 \in v THEN 2 ELSE 0)
  + (IF 8 * k + 2 \in v THEN 4 ELSE 0) + (IF 8 * k + 3 \in v THEN 8 ELSE 0)
  + (IF 8 * k + 4 \in v THEN 16 ELSE 0) + (IF 8 * k + 5 \in v THEN 32 ELSE 0)
  + (IF 8 * k + 6 \in v THEN 64 ELSE 0) + (IF 8 * k + 7 \in v THEN 128 ELSE 0)

\* the one bits of the integer n (n < 2^20), placed from position base up
BitsAt(n, base) == {base + j : j \in {i \in 0..19 : (n \div Pow2(i)) % 2 = 1}}

\* the integer held in a bit set of at most 20 bits
RECURSIVE NatOf(_)
NatOf(v) ==
  IF v = {} THEN 0
  ELSE LET m == MaxOf(v) IN Pow2(m) + NatOf(v \ {m})

\* unsigned order of two bit sets of any width
LtBits(x, y) ==
  LET d == (x \ y) \cup (y \ x) IN d # {} /\ MaxOf(d) \in y

\* the one bits of each byte value
ByteBits == [t \in 0..255 |-> {i \in 0..7 : (t \div Pow2(i)) % 2 = 1}]

\* x + y + cin over bytes lo..hi-1: the sum bits and the carry out of byte hi-1
RECURSIVE AddRange(_, _, _, _, _)
AddRange(x, y, lo, hi, cin) ==
  IF hi - lo = 1
  THEN LET t == ByteOf(x, lo) + ByteOf(y, lo) + cin
       IN  [s |-> ShiftUp(ByteBits[t % 256], 8 * lo), c |-> t \div 256]
  ELSE LET mid == (lo + hi) \div 2
           L == AddRange(x, y, lo, mid, cin)
           H == AddRange(x, y, mid, hi, L.c)
       IN  [s |-> L.s \cup H.s, c |-> H.c]

\* column k of the byte-wise product of the byte tuples A and B
RECURSIVE ColSum(_, _, _, _)
ColSum(A, B, k, i) ==
  IF i > k \/ i > Len(A) - 1 THEN 0
  ELSE (IF k - i <= Len(B) - 1 THEN A[i + 1] * B[k - i + 1] ELSE 0)
       + ColSum(A, B, k, i + 1)

RECURSIVE MulCols(_, _, _, _)
MulCols(A, B, k, cin) ==
  IF k = Len(A) + Len(B) THEN {}
  ELSE LET t == ColSum(A, B, k, 0) + cin
       IN  ShiftUp(ByteBits[t % 256], 8 * k) \cup MulCols(A, B, k + 1, t \div 256)

BytesOf(v, n) == [k \in 1..n |-> ByteOf(v, k - 1)]

\* the exact product of two bit sets of at most 8*n bits each
MulBits(x, y, n) == MulCols(BytesOf(x, n), BytesOf(y, n), 0, 0)

(***************************************************************************)
(* Vector elements, big-endian numbering: element e of width w.            *)
(***************************************************************************)
ElemLo(e, w) == 128 - w * (e + 1)

ElemBits(e, w) == ElemLo(e, w)..(ElemLo(e, w) + w - 1)

Elems(w) == 0..((128 \div w) - 1)

Lane(v, e, w) == Field(v, ElemLo(e, w), w)

\* signed order of two w-bit lanes
LtSigned(x, y, w) ==
  IF ((w - 1) \in x) # ((w - 1) \in y) THEN (w - 1) \in x ELSE LtBits(x, y)

VEC_DW_H == 0

VEC_DW_L == 1

VEC_WE_1 == 1

VEC_WE_3 == 3

VEC_HW_H == 0

VEC_BYTE_H == 0

(***************************************************************************)
(* Constants of the source.                                                *)
(***************************************************************************)
q_zero == {}

q_ones == QW

\* CONST_VINT128_W (0x7fffffff, -1, -1, -1)
vec_mask128_f128mag == 0..126

\* CONST_VINT128_W (0x0000ffff, -1, -1, -1)
vec_mask128_f128sig == 0..111

\* CONST_VINT128_W (0x7fff0000, 0, 0, 0)
vec_mask128_f128exp == 112..126

\* CONST_VINT128_W (0x80000000, 0, 0, 0)
vec_mask128_f128sign == {127}

\* CONST_VINT128_W (0x00010000, 0, 0, 0)
vec_mask128_f128Lbit == {112}

\* CONST_VINT128_W (0x00008000, 0, 0, 0)
vec_mask128_f128Qbit == {111}

\* CONST_VINT128_W (0, 0x7fff, 0, 0x7fff)
vec_mask64_f128exp == (0..14) \cup (64..78)

\* vui64_t {128, 128}
vec_const64_f128_128 == {7, 71}

\* CONST_VINT128_W (0x7fff8000, 0, 0, 0)
vec_const_nanf128 == 111..126

\* CONST_VINT128_W (0x7fff0000, 0, 0, 0)
vec_const_inff128 == 112..126

\* CONST_VINT128_W (0x7ffeffff, -1, -1, -1)
f128_max == (0..126) \ {112}

(***************************************************************************)
(* The vector primitives the operations are built from (VMX/VSX            *)
(* intrinsics and the PVECLIB integer operations), by their documented     *)
(* meaning.                                                                *)
(***************************************************************************)
vec_and(a, b) == a \cap b

vec_andc(a, b) == a \ b

vec_or(a, b) == a \cup b

vec_xor(a, b) == (a \ b) \cup (b \ a)

vec_nor(a, b) == QW \ (a \cup b)

\* bits of b where the mask is one, bits of a elsewhere
vec_sel(a, b, mask) == (a \ mask) \cup (b \cap mask)

vec_seluq(a, b, mask) == vec_sel(a, b, mask)

vec_selud(a, b, mask) == vec_sel(a, b, mask)

vec_splat(v, e, w) ==
  LET x == Lane(v, e, w) IN UNION {ShiftUp(x, ElemLo(i, w)) : i \in Elems(w)}

vec_splatd(v, e) == vec_splat(v, e, 64)

vec_swapd(v) == ShiftUp(Lane(v, 1, 64), 64) \cup Lane(v, 0, 64)

vec_splat_u8(n) == vec_splat(BitsAt(n, 120), 0, 8)

vec_splat_u16(n) == vec_splat(BitsAt(n, 112), 0, 16)

vec_splat_u64(n) == vec_splat(BitsAt(n, 64), 0, 64)

vec_splat_u128(n) == BitsAt(n, 0)

\* element-wise unsigned a > b, as a mask
vec_cmpgt(a, b, w) ==
  UNION {IF LtBits(Lane(b, e, w), Lane(a, e, w)) THEN ElemBits(e, w) ELSE {}
         : e \in Elems(w)}

vec_all_gt(a, b, w) == \A e \in Elems(w) : LtBits(Lane(b, e, w), Lane(a, e, w))

vec_all_le(a, b, w) == \A e \in Elems(w) : ~LtBits(Lane(b, e, w), Lane(a, e, w))

vec_all_eq(a, b, w) == a = b

vec_cmpequd(a, b) ==
  UNION {IF Lane(a, e, 64) = Lane(b, e, 64) THEN ElemBits(e, 64) ELSE {}
         : e \in Elems(64)}

vec_cmpgtud(a, b) == vec_cmpgt(a, b, 64)

vec_cmpltud(a, b) == vec_cmpgt(b, a, 64)

vec_cmpgtsd(a, b) ==
  UNION {IF LtSigned(Lane(b, e, 64), Lane(a, e, 64), 64) THEN ElemBits(e, 64) ELSE {}
         : e \in Elems(64)}

vec_cmpud_all_lt(a, b) == \A e \in Elems(64) : LtBits(Lane(a, e, 64), Lane(b, e, 64))

vec_cmpud_all_gt(a, b) == \A e \in Elems(64) : LtBits(Lane(b, e, 64), Lane(a, e, 64))

vec_cmpud_all_ge(a, b) == \A e \in Elems(64) : ~LtBits(Lane(a, e, 64), Lane(b, e, 64))

vec_cmpud_all_le(a, b) == \A e \in Elems(64) : ~LtBits(Lane(b, e, 64), Lane(a, e, 64))

vec_cmpud_all_eq(a, b) == a = b

vec_cmpud_any_eq(a, b) == \E e \in Elems(64) : Lane(a, e, 64) = Lane(b, e, 64)

vec_cmpud_any_ne(a, b) == a # b

vec_cmpsd_all_lt(a, b) == \A e \in Elems(64) : LtSigned(Lane(a, e, 64), Lane(b, e, 64), 64)

vec_cmpsd_all_gt(a, b) == \A e \in Elems(64) : LtSigned(Lane(b, e, 64), Lane(a, e, 64), 64)

\* modulo 2^64 in each doubleword
vec_addudm(a, b) == AddRange(a, b, 0, 8, 0).s \cup AddRange(a, b, 8, 16, 0).s

vec_subudm(a, b) == AddRange(a, QW \ b, 0, 8, 1).s \cup AddRange(a, QW \ b, 8, 16, 1).s

vec_minud(a, b) == vec_sel(a, b, vec_cmpgtud(a, b))

\* each halfword shifted right n bits
vec_srhi(v, n) ==
  UNION {ShiftUp(ShiftDown(Lane(v, e, 16), n), ElemLo(e, 16)) : e \in Elems(16)}

\* modulo 2^128
vec_adduqm(a, b) == AddRange(a, b, 0, 16, 0).s

\* the carry out of a + b
vec_addcuq(a, b) == BitsAt(AddRange(a, b, 0, 16, 0).c, 0)

vec_subuqm(a, b) == AddRange(a, QW \ b, 0, 16, 1).s

vec_cmpuq_all_eq(a, b) == a = b

vec_cmpequq(a, b) == IF a = b THEN QW ELSE {}

vec_cmpneuq(a, b) == IF a # b THEN QW ELSE {}

vec_cmpltuq(a, b) == IF LtBits(a, b) THEN QW ELSE {}

vec_cmpgtuq(a, b) == IF LtBits(b, a) THEN QW ELSE {}

vec_cmpleuq(a, b) == IF ~LtBits(b, a) THEN QW ELSE {}

vec_cmpgeuq(a, b) == IF ~LtBits(a, b) THEN QW ELSE {}

vec_cmpuq_all_gt(a, b) == LtBits(b, a)

\* each byte of v shifted right algebraically by the low 3 bits of the same
\* byte of sh
vec_sra(v, sh) ==
  UNION {LET x == Lane(v, e, 8)
             n == NatOf(Field(Lane(sh, e, 8), 0, 3))
         IN  ShiftUp(ShiftDown(x, n) \cup (IF 7 \in x THEN (8 - n)..7 ELSE {}),
                     ElemLo(e, 8))
         : e \in Elems(8)}

\* the quadword's sign bit, as a mask
vec_setb_sq(v) == IF 127 \in v THEN QW ELSE {}

\* count of leading zero bits, as a quadword
vec_clzq(v) == IF v = {} THEN BitsAt(128, 0) ELSE BitsAt(127 - MaxOf(v), 0)

vec_slqi(v, n) == ShiftUp(v, n) \cap QW

vec_srqi(v, n) == ShiftDown(v, n)

\* the shift count is the low 7 bits of the quadword sh
vec_slq(v, sh) == ShiftUp(v, NatOf(Field(sh, 0, 7))) \cap QW

vec_srq(v, sh) == ShiftDown(v, NatOf(Field(sh, 0, 7)))

\* the high quadword of (h || l) shifted left n bits
vec_sldqi(h, l, n) == Field(ShiftUp(ShiftUp(h, 128) \cup l, n), 128, 128)

vec_sldq(h, l, sh) == vec_sldqi(h, l, NatOf(Field(sh, 0, 7)))

\* the high quadword of (a || b) shifted left n bytes
vec_sld(a, b, n) == vec_sldqi(a, b, 8 * n)

\* the 256-bit product, high and low quadword
vec_muludq(a, b) ==
  LET p == MulBits(a, b, 16) IN [h |-> Field(p, 128, 128), l |-> p \cap QW]

\* the doublewords {vfa[VEC_DW_H], vfb[VEC_DW_H]}
vec_mrgahd(a, b) == ShiftUp(Lane(a, 0, 64), 64) \cup Lane(b, 0, 64)

(***************************************************************************)
(* __binary128 <-> vector transfers and bit-field access.                  *)
(***************************************************************************)
vec_and_bin128_2_vui32t(f128, mask) == vec_and(f128, mask)

vec_andc_bin128_2_vui32t(f128, mask) == vec_andc(f128, mask)

vec_or_bin128_2_vui32t(f128, mask) == vec_or(f128, mask)

vec_xor_bin128_2_vui32t(f128, mask) == vec_xor(f128, mask)

vec_mrgh_bin128_2_vui64t(a, b) == vec_mrgahd(a, b)

vec_xxxexpqpp(a, b) ==
  LET exp_mask == vec_mask64_f128exp
      tmp == vec_mrgh_bin128_2_vui64t(a, b)
      rtmp == vec_sld(tmp, tmp, 10)
  IN  vec_and(rtmp, exp_mask)

\* variant: the exponent is ORed into what sig holds in the exponent positions
vec_xsiexpqp_or(sig, exp) ==
  vec_or(sig, vec_and(vec_sld(exp, exp, 6), vec_mask128_f128exp))

vec_xsiexpqp(sig, exp) ==
  LET expmask == vec_mask128_f128exp
      tmp == vec_sld(exp, exp, 6)
  IN  vec_sel(sig, tmp, expmask)

\* variant: the quiet bit alone decides
vec_all_isnanf128_quiet(f128) ==
  LET expmask == vec_mask128_f128exp
      tmp == vec_and_bin128_2_vui32t(f128, vec_mask128_f128mag)
  IN  vec_cmpuq_all_gt(tmp, expmask) /\ 111 \in f128

vec_all_isnanf128(f128) ==
  LET magmask == vec_mask128_f128mag
      expmask == vec_mask128_f128exp
      tmp == vec_and_bin128_2_vui32t(f128, magmask)
  IN  vec_cmpuq_all_gt(tmp, expmask)

vec_nabsf128(f128) ==
  LET signmask == {127}
  IN  vec_andc_bin128_2_vui32t(f128, signmask)

vec_negf128(f128) ==
  LET signmask == {127}
  IN  vec_xor_bin128_2_vui32t(f128, signmask)

(***************************************************************************)
(* vec_xsaddqpo: add quad-precision, round to odd.                         *)
(***************************************************************************)
\* variant: a zero sum always takes the sign of the first operand
xsaddqpo_zero_keep(a_sign, diff_sign) == a_sign

\* a zero sum: +0 when the signs differ, else the common sign
xsaddqpo_zero(a_sign, diff_sign) == vec_sel(a_sign, q_zero, diff_sign)

\* variant: the GRX bits are dropped, the sum is truncated
xsaddqpo_round_trunc(s_sig) == vec_srqi(s_sig, 3)

\* round to odd from the low order GRX bits
xsaddqpo_round(s_sig) ==
  LET grx_mask == vec_splat_u128(7)
      p_tmp == vec_and(s_sig, grx_mask)
      p_odd == vec_addcuq(p_tmp, q_ones)
      q_sig == vec_srqi(s_sig, 3)
  IN  vec_or(q_sig, p_odd)

\* variant: exponent overflow gives infinity
xsaddqpo_pack_inf(q_sig, q_sign, q_exp) ==
  LET exp_naninf == vec_mask64_f128exp
  IN  IF vec_cmpud_all_ge(q_exp, exp_naninf)
      THEN vec_or(vec_const_inff128, q_sign)
      ELSE vec_xsiexpqp(vec_or(q_sig, q_sign), q_exp)

\* exponent overflow gives the greatest finite magnitude, else the fields
\* are merged
xsaddqpo_pack(q_sig, q_sign, q_exp) ==
  LET exp_naninf == vec_mask64_f128exp
  IN  IF vec_cmpud_all_ge(q_exp, exp_naninf)
      THEN vec_or(f128_max, q_sign)
      ELSE vec_xsiexpqp(vec_or(q_sig, q_sign), q_exp)

\* carry out of, or leading zeros in, the significand sum: shift it to the
\* normal position as far as the exponent allows, then round and pack
xsaddqpo_norm(s_sig, q_sign, q_exp) ==
  LET xbitmask == vec_splat_u128(1)
      exp_min == vec_splat_u64(1)
      t_sig_L == vec_splat_u8(7)
      t_sig_C == vec_splat_u8(15)
      exp_one == exp_min
      exp_dnrm == q_zero
      t_sig == vec_splat(s_sig, 1, 8)
      \* carry: shift right one, keep the X bit
      p_odd == vec_and(s_sig, xbitmask)
      s_sigC == vec_or(vec_srqi(s_sig, 1), p_odd)
      q_expC == vec_addudm(q_exp, exp_one)
      \* below the normal range
      exp_12 == vec_splat_u64(12)
      c_exp == vec_subudm(vec_splatd(vec_clzq(s_sig), VEC_DW_L), exp_12)
      d_exp == vec_minud(c_exp, vec_subudm(q_exp, exp_min))
      nrm_mask == vec_cmpgtsd(q_exp, exp_min)
      exp_mask == vec_and(vec_cmpgtud(q_exp, c_exp), nrm_mask)
      c_sig == vec_slq(s_sig, d_exp)
      q_expL == vec_selud(exp_dnrm, vec_subudm(q_exp, d_exp), exp_mask)
      s_sigL == vec_seluq(s_sig, c_sig, nrm_mask)
  IN  IF vec_all_gt(t_sig, t_sig_C, 8)
      THEN xsaddqpo_pack(xsaddqpo_round(s_sigC), q_sign, q_expC)
      ELSE IF vec_all_le(t_sig, t_sig_L, 8)
      THEN xsaddqpo_pack(xsaddqpo_round(s_sigL), q_sign, q_expL)
      ELSE xsaddqpo_pack(xsaddqpo_round(s_sig), q_sign, q_exp)

\* add or subtract the aligned significands; a zero sum returns at once
xsaddqpo_sum(a_sign, diff_sign, q_sign, q_exp, a_sig, b_sig) ==
  LET add_sig == vec_adduqm(a_sig, b_sig)
      sub_sig == vec_subuqm(a_sig, b_sig)
      s_sig == vec_seluq(add_sig, sub_sig, diff_sign)
  IN  IF vec_cmpuq_all_eq(s_sig, q_zero)
      THEN xsaddqpo_zero(a_sign, diff_sign)
      ELSE xsaddqpo_norm(s_sig, q_sign, q_exp)

\* shift b right by the exponent difference, what is shifted out is ORed
\* into the X bit
xsaddqpo_align(a_exp, b_exp, b_sig) ==
  LET exp_128 == vec_const64_f128_128
      d_exp == vec_subudm(a_exp, b_exp)
      exp_mask == vec_cmpltud(d_exp, exp_128)
      l_exp == vec_subudm(exp_128, d_exp)
      t_sig == vec_seluq(q_zero, vec_srq(b_sig, d_exp), exp_mask)
      x_bits == vec_seluq(b_sig, vec_slq(b_sig, l_exp), exp_mask)
      p_odd == vec_addcuq(x_bits, q_ones)
  IN  IF vec_cmpud_all_lt(b_exp, a_exp) THEN vec_or(t_sig, p_odd) ELSE b_sig

\* the operands swapped so that a has the greater magnitude
xsaddqpo_swap(a_sign, b_sign, diff_sign, a_lt_b, x_exp, a_tmp, b_tmp) ==
  LET x_tmp == vec_swapd(x_exp)
      q_sign == vec_sel(a_sign, b_sign, a_lt_b)
      s_exp == vec_selud(x_exp, x_tmp, a_lt_b)
      a_exp == vec_splatd(s_exp, VEC_DW_H)
      b_exp == vec_splatd(s_exp, VEC_DW_L)
      a_sig == vec_seluq(a_tmp, b_tmp, a_lt_b)
      b_sig == vec_seluq(b_tmp, a_tmp, a_lt_b)
  IN  xsaddqpo_sum(a_sign, diff_sign, q_sign, a_exp, a_sig,
                   xsaddqpo_align(a_exp, b_exp, b_sig))

\* the finite path: significands with the hidden bit and room for GRX
xsaddqpo_finite(a_sign, b_sign, a_mag, b_mag, x_exp) ==
  LET exp_min == vec_splat_u64(1)
      sigmask == vec_mask128_f128sig
      hidden == vec_mask128_f128Lbit
      a_s32 == vec_and(a_mag, sigmask)
      b_s32 == vec_and(b_mag, sigmask)
      x_norm == vec_cmpgt(x_exp, q_zero, 32)
      a_norm == vec_splat(x_norm, VEC_WE_1, 32)
      b_norm == vec_splat(x_norm, VEC_WE_3, 32)
      a_sig == vec_slqi(vec_sel(a_s32, a_norm, hidden), 3)
      b_sig == vec_slqi(vec_sel(b_s32, b_norm, hidden), 3)
      q_sign == vec_xor(a_sign, b_sign)
      diff_sign == vec_setb_sq(q_sign)
      a_lt_b == vec_cmpltuq(a_mag, b_mag)
  IN  xsaddqpo_swap(a_sign, b_sign, diff_sign, a_lt_b,
                    vec_selud(exp_min, x_exp, x_norm), a_sig, b_sig)

\* variant: a NaN second operand is preferred to a NaN first operand
vec_xsaddqpo_bfirst(a, b) ==
  LET magmask == vec_mask128_f128mag
      exp_naninf == vec_mask64_f128exp
      x_exp == vec_xxxexpqpp(a, b)
      a_mag == vec_and_bin128_2_vui32t(a, magmask)
      b_mag == vec_and_bin128_2_vui32t(b, magmask)
      a_sign == vec_andc_bin128_2_vui32t(a, magmask)
      b_sign == vec_andc_bin128_2_vui32t(b, magmask)
      q_nan == vec_mask128_f128Qbit
      a_exp == vec_splatd(x_exp, VEC_DW_H)
  IN  IF vec_cmpud_all_lt(x_exp, exp_naninf)
      THEN xsaddqpo_finite(a_sign, b_sign, a_mag, b_mag, x_exp)
      ELSE IF vec_all_isnanf128(b) THEN vec_or_bin128_2_vui32t(b, q_nan)
      ELSE IF vec_all_isnanf128(a) THEN vec_or_bin128_2_vui32t(a, q_nan)
      ELSE IF vec_cmpud_all_eq(x_exp, exp_naninf)
              /\ vec_cmpud_any_ne(a_sign, b_sign)
      THEN vec_const_nanf128
      ELSE IF vec_cmpud_any_eq(a_exp, exp_naninf) THEN a
      ELSE b

\* variant: infinities of opposite sign are not told from the others
vec_xsaddqpo_infsum(a, b) ==
  LET magmask == vec_mask128_f128mag
      exp_naninf == vec_mask64_f128exp
      x_exp == vec_xxxexpqpp(a, b)
      a_mag == vec_and_bin128_2_vui32t(a, magmask)
      b_mag == vec_and_bin128_2_vui32t(b, magmask)
      a_sign == vec_andc_bin128_2_vui32t(a, magmask)
      b_sign == vec_andc_bin128_2_vui32t(b, magmask)
      q_nan == vec_mask128_f128Qbit
      a_exp == vec_splatd(x_exp, VEC_DW_H)
  IN  IF vec_cmpud_all_lt(x_exp, exp_naninf)
      THEN xsaddqpo_finite(a_sign, b_sign, a_mag, b_mag, x_exp)
      ELSE IF vec_all_isnanf128(a) THEN vec_or_bin128_2_vui32t(a, q_nan)
      ELSE IF vec_all_isnanf128(b) THEN vec_or_bin128_2_vui32t(b, q_nan)
      ELSE IF vec_cmpud_any_eq(a_exp, exp_naninf) THEN a
      ELSE b

vec_xsaddqpo(a, b) ==
  LET magmask == vec_mask128_f128mag
      exp_naninf == vec_mask64_f128exp
      x_exp == vec_xxxexpqpp(a, b)
      a_mag == vec_and_bin128_2_vui32t(a, magmask)
      b_mag == vec_and_bin128_2_vui32t(b, magmask)
      a_sign == vec_andc_bin128_2_vui32t(a, magmask)
      b_sign == vec_andc_bin128_2_vui32t(b, magmask)
      q_nan == vec_mask128_f128Qbit
      a_exp == vec_splatd(x_exp, VEC_DW_H)
  IN  IF vec_cmpud_all_lt(x_exp, exp_naninf)
      THEN xsaddqpo_finite(a_sign, b_sign, a_mag, b_mag, x_exp)
      ELSE IF vec_all_isnanf128(a) THEN vec_or_bin128_2_vui32t(a, q_nan)
      ELSE IF vec_all_isnanf128(b) THEN vec_or_bin128_2_vui32t(b, q_nan)
      ELSE IF vec_cmpud_all_eq(x_exp, exp_naninf)
              /\ vec_cmpud_any_ne(a_sign, b_sign)
      THEN vec_const_nanf128
      ELSE IF vec_cmpud_any_eq(a_exp, exp_naninf) THEN a
      ELSE b

(***************************************************************************)
(* vec_xssubqpo: subtract quad-precision, round to odd.                    *)
(***************************************************************************)
\* a zero sum: +0 when the signs differ, else the common sign
xssubqpo_zero(a_sign, diff_sign) == vec_sel(a_sign, q_zero, diff_sign)

\* round to odd from the low order GRX bits
xssubqpo_round(s_sig) ==
  LET grx_mask == vec_splat_u128(7)
      p_tmp == vec_and(s_sig, grx_mask)
      p_odd == vec_addcuq(p_tmp, q_ones)
      q_sig == vec_srqi(s_sig, 3)
  IN  vec_or(q_sig, p_odd)

\* exponent overflow gives the greatest finite magnitude, else the fields
\* are merged
xssubqpo_pack(q_sig, q_sign, q_exp) ==
  LET exp_naninf == vec_mask64_f128exp
  IN  IF vec_cmpud_all_ge(q_exp, exp_naninf)
      THEN vec_or(f128_max, q_sign)
      ELSE vec_xsiexpqp(vec_or(q_sig, q_sign), q_exp)

\* carry out of, or leading zeros in, the significand sum: shift it to the
\* normal position as far as the exponent allows, then round and pack
xssubqpo_norm(s_sig, q_sign, q_exp) ==
  LET xbitmask == vec_splat_u128(1)
      exp_min == vec_splat_u64(1)
      t_sig_L == vec_splat_u8(7)
      t_sig_C == vec_splat_u8(15)
      exp_one == exp_min
      exp_dnrm == q_zero
      t_sig == vec_splat(s_sig, 1, 8)
      \* carry: shift right one, keep the X bit
      p_odd == vec_and(s_sig, xbitmask)
      s_sigC == vec_or(vec_srqi(s_sig, 1), p_odd)
      q_expC == vec_addudm(q_exp, exp_one)
      \* below the normal range
      exp_12 == vec_splat_u64(12)
      c_exp == vec_subudm(vec_splatd(vec_clzq(s_sig), VEC_DW_L), exp_12)
      d_exp == vec_minud(c_exp, vec_subudm(q_exp, exp_min))
      nrm_mask == vec_cmpgtsd(q_exp, exp_min)
      exp_mask == vec_and(vec_cmpgtud(q_exp, c_exp), nrm_mask)
      c_sig == vec_slq(s_sig, d_exp)
      q_expL == vec_selud(exp_dnrm, vec_subudm(q_exp, d_exp), exp_mask)
      s_sigL == vec_seluq(s_sig, c_sig, nrm_mask)
  IN  IF vec_all_gt(t_sig, t_sig_C, 8)
      THEN xssubqpo_pack(xssubqpo_round(s_sigC), q_sign, q_expC)
      ELSE IF vec_all_le(t_sig, t_sig_L, 8)
      THEN xssubqpo_pack(xssubqpo_round(s_sigL), q_sign, q_expL)
      ELSE xssubqpo_pack(xssubqpo_round(s_sig), q_sign, q_exp)

\* add or subtract the aligned significands; a zero sum returns at once
xssubqpo_sum(a_sign, diff_sign, q_sign, q_exp, a_sig, b_sig) ==
  LET add_sig == vec_adduqm(a_sig, b_sig)
      sub_sig == vec_subuqm(a_sig, b_sig)
      s_sig == vec_seluq(add_sig, sub_sig, diff_sign)
  IN  IF vec_cmpuq_all_eq(s_sig, q_zero)
      THEN xssubqpo_zero(a_sign, diff_sign)
      ELSE xssubqpo_norm(s_sig, q_sign, q_exp)

\* shift b right by the exponent difference, what is shifted out is ORed
\* into the X bit
xssubqpo_align(a_exp, b_exp, b_sig) ==
  LET exp_128 == vec_const64_f128_128
      d_exp == vec_subudm(a_exp, b_exp)
      exp_mask == vec_cmpltud(d_exp, exp_128)
      l_exp == vec_subudm(exp_128, d_exp)
      t_sig == vec_seluq(q_zero, vec_srq(b_sig, d_exp), exp_mask)
      x_bits == vec_seluq(b_sig, vec_slq(b_sig, l_exp), exp_mask)
      p_odd == vec_addcuq(x_bits, q_ones)
  IN  IF vec_cmpud_all_lt(b_exp, a_exp) THEN vec_or(t_sig, p_odd) ELSE b_sig

\* the operands swapped so that a has the greater magnitude
xssubqpo_swap(a_sign, b_sign, diff_sign, a_lt_b, x_exp, a_tmp, b_tmp) ==
  LET x_tmp == vec_swapd(x_exp)
      q_sign == vec_sel(a_sign, b_sign, a_lt_b)
      s_exp == vec_selud(x_exp, x_tmp, a_lt_b)
      a_exp == vec_splatd(s_exp, VEC_DW_H)
      b_exp == vec_splatd(s_exp, VEC_DW_L)
      a_sig == vec_seluq(a_tmp, b_tmp, a_lt_b)
      b_sig == vec_seluq(b_tmp, a_tmp, a_lt_b)
  IN  xssubqpo_sum(a_sign, diff_sign, q_sign, a_exp, a_sig,
                   xssubqpo_align(a_exp, b_exp, b_sig))

\* the finite path: significands with the hidden bit and room for GRX
xssubqpo_finite(a_sign, b_sign0, a_mag, b_mag, x_exp) ==
  LET magmask == vec_mask128_f128mag
      exp_min == vec_splat_u64(1)
      sigmask == vec_mask128_f128sig
      hidden == vec_mask128_f128Lbit
      a_s32 == vec_and(a_mag, sigmask)
      b_s32 == vec_and(b_mag, sigmask)
      x_norm == vec_cmpgt(x_exp, q_zero, 32)
      a_norm == vec_splat(x_norm, VEC_WE_1, 32)
      b_norm == vec_splat(x_norm, VEC_WE_3, 32)
      a_sig == vec_slqi(vec_sel(a_s32, a_norm, hidden), 3)
      b_sig == vec_slqi(vec_sel(b_s32, b_norm, hidden), 3)
      \* negate the sign for subtract, then use the add logic
      signmask == vec_nor(magmask, magmask)
      b_sign == vec_xor(signmask, b_sign0)
      q_sign == vec_xor(a_sign, b_sign)
      diff_sign == vec_setb_sq(q_sign)
      a_lt_b == vec_cmpltuq(a_mag, b_mag)
  IN  xssubqpo_swap(a_sign, b_sign, diff_sign, a_lt_b,
                    vec_selud(exp_min, x_exp, x_norm), a_sig, b_sig)

\* variant: subtract as the sum with the negated second operand, NaN or not
vec_xssubqpo_negate(a, b) == vec_xsaddqpo(a, vec_negf128(b))

\* variant: an infinite second operand is returned with its own sign
vec_xssubqpo_infb(a, b) ==
  LET magmask == vec_mask128_f128mag
      exp_naninf == vec_mask64_f128exp
      x_exp == vec_xxxexpqpp(a, b)
      a_mag == vec_and_bin128_2_vui32t(a, magmask)
      b_mag == vec_and_bin128_2_vui32t(b, magmask)
      a_sign == vec_andc_bin128_2_vui32t(a, magmask)
      b_sign == vec_andc_bin128_2_vui32t(b, magmask)
      q_nan == vec_mask128_f128Qbit
      a_exp == vec_splatd(x_exp, VEC_DW_H)
  IN  IF vec_cmpud_all_lt(x_exp, exp_naninf)
      THEN xssubqpo_finite(a_sign, b_sign, a_mag, b_mag, x_exp)
      ELSE IF vec_all_isnanf128(a) THEN vec_or_bin128_2_vui32t(a, q_nan)
      ELSE IF vec_all_isnanf128(b) THEN vec_or_bin128_2_vui32t(b, q_nan)
      ELSE IF vec_cmpud_all_eq(x_exp, exp_naninf)
              /\ vec_cmpud_all_eq(a_sign, b_sign)
      THEN vec_const_nanf128
      ELSE IF vec_cmpud_any_eq(a_exp, exp_naninf) THEN a
      ELSE b

vec_xssubqpo(a, b) ==
  LET magmask == vec_mask128_f128mag
      exp_naninf == vec_mask64_f128exp
      x_exp == vec_xxxexpqpp(a, b)
      a_mag == vec_and_bin128_2_vui32t(a, magmask)
      b_mag == vec_and_bin128_2_vui32t(b, magmask)
      a_sign == vec_andc_bin128_2_vui32t(a, magmask)
      b_sign == vec_andc_bin128_2_vui32t(b, magmask)
      q_nan == vec_mask128_f128Qbit
      a_exp == vec_splatd(x_exp, VEC_DW_H)
  IN  IF vec_cmpud_all_lt(x_exp, exp_naninf)
      THEN xssubqpo_finite(a_sign, b_sign, a_mag, b_mag, x_exp)
      ELSE IF vec_all_isnanf128(a) THEN vec_or_bin128_2_vui32t(a, q_nan)
      ELSE IF vec_all_isnanf128(b) THEN vec_or_bin128_2_vui32t(b, q_nan)
      ELSE IF vec_cmpud_all_eq(x_exp, exp_naninf)
              /\ vec_cmpud_all_eq(a_sign, b_sign)
      THEN vec_const_nanf128
      ELSE IF vec_cmpud_any_eq(a_exp, exp_naninf) THEN a
      ELSE vec_negf128(b)

(***************************************************************************)
(* vec_xsmulqpo: multiply quad-precision, round to odd.                    *)
(***************************************************************************)
\* variant: the low product bits are dropped, the product is truncated
xsmulqpo_round_trunc(q_sig, p_sig_l) == q_sig

\* round to odd from the low product bits
xsmulqpo_round(q_sig, p_sig_l) ==
  LET p_odd == vec_addcuq(p_sig_l, q_ones)
  IN  vec_or(q_sig, p_odd)

\* exponent overflow gives the greatest finite magnitude, else sign,
\* significand and exponent are merged
xsmulqpo_pack(q_sig, q_sign, q_exp) ==
  LET exp_naninf == vec_mask64_f128exp
      expmask == vec_sld(exp_naninf, q_zero, 14)
      tmp == vec_sld(q_exp, q_zero, 14)
  IN  IF vec_cmpud_all_ge(q_exp, exp_naninf)
      THEN vec_or(f128_max, q_sign)
      ELSE vec_sel(vec_or(q_sig, q_sign), tmp, expmask)

\* the exponent is not tiny but the significand may be below the normal
\* range: normalize as far as the exponent allows
xsmulqpo_denorm(p_sig_h, p_sig_l, q_sig, q_sign, q_exp) ==
  LET exp_min == vec_splat_u64(1)
      exp_dnrm == q_zero
      t_sig == vec_splat(p_sig_h, VEC_HW_H, 16)
      exp_15 == vec_splat_u64(15)
      c_exp == vec_subudm(vec_splatd(vec_clzq(p_sig_h), VEC_DW_L), exp_15)
      d_exp == vec_minud(c_exp, vec_subudm(q_exp, exp_min))
      exp_mask == vec_cmpgtud(q_exp, c_exp)
      n_sig_h == vec_sldq(p_sig_h, p_sig_l, d_exp)
      n_sig_l == vec_slq(p_sig_l, d_exp)
      n_exp == vec_selud(exp_dnrm, vec_subudm(q_exp, d_exp), exp_mask)
  IN  IF vec_all_eq(t_sig, q_zero, 16)
      THEN IF vec_cmpsd_all_gt(q_exp, exp_min)
           THEN xsmulqpo_pack(xsmulqpo_round(n_sig_h, n_sig_l), q_sign, n_exp)
           ELSE xsmulqpo_pack(xsmulqpo_round(q_sig, p_sig_l), q_sign, exp_dnrm)
      ELSE xsmulqpo_pack(xsmulqpo_round(q_sig, p_sig_l), q_sign, q_exp)

\* a tiny exponent: shift the product right, the bits shifted out are
\* collected in the X bit; too tiny leaves the X bit only
xsmulqpo_tiny(p_sig_h, p_sig_l, q_sign, q_exp) ==
  LET exp_min == vec_splat_u64(1)
      exp_dnrm == q_zero
      exp_128 == vec_const64_f128_128
      too_tiny == vec_splat_u64(116)
      xmask == vec_srqi(q_ones, 3)
      x_exp == vec_subudm(exp_min, q_exp)
      \* too tiny
      tt_or == vec_or(vec_srqi(p_sig_l, 8), p_sig_h)
      tt_l == vec_andc(vec_adduqm(tt_or, xmask), xmask)
      \* tiny
      tmp == vec_adduqm(vec_and(p_sig_l, xmask), xmask)
      nt_x == vec_andc(vec_or(p_sig_l, tmp), xmask)
      l_exp == vec_subudm(exp_128, x_exp)
      nt_l == vec_sldq(p_sig_h, nt_x, l_exp)
      nt_h == vec_srq(p_sig_h, x_exp)
  IN  IF vec_cmpsd_all_lt(q_exp, exp_min)
      THEN IF vec_cmpud_all_gt(x_exp, too_tiny)
           THEN xsmulqpo_denorm(p_sig_h, tt_l, q_zero, q_sign, exp_dnrm)
           ELSE xsmulqpo_denorm(nt_h, nt_l, nt_h, q_sign, exp_dnrm)
      ELSE xsmulqpo_denorm(p_sig_h, p_sig_l, p_sig_h, q_sign, q_exp)

\* a carry into the C bit: shift the double quadword right one, exponent + 1
xsmulqpo_carry(p_sig_h, p_sig_l, q_sign, q_exp) ==
  LET exp_one == vec_splat_u64(1)
      sig_l_mask == vec_splat_u16(1)
      t_sig == vec_splat(p_sig_h, VEC_HW_H, 16)
      carry_mask == vec_cmpgt(t_sig, sig_l_mask, 16)
      p_tmp == vec_sldqi(p_sig_h, p_sig_l, 120)
      sig_h == vec_srqi(p_sig_h, 1)
      sig_l == vec_slqi(p_tmp, 7)
      x_exp == vec_addudm(q_exp, exp_one)
  IN  xsmulqpo_tiny(vec_seluq(p_sig_h, sig_h, carry_mask),
                    vec_seluq(p_sig_l, sig_l, carry_mask), q_sign,
                    vec_selud(q_exp, x_exp, carry_mask))

\* the product exponent: operand exponents at least Emin, one bias removed
xsmulqpo_exp(x_exp) ==
  LET exp_naninf == vec_mask64_f128exp
      exp_dnrm == q_zero
      exp_min == vec_splat_u64(1)
      exp_bias == vec_srhi(exp_naninf, 1)
      exp_mask == vec_cmpequd(x_exp, exp_dnrm)
      n_exp == vec_selud(x_exp, exp_min, exp_mask)
  IN  vec_subudm(vec_addudm(n_exp, vec_swapd(n_exp)), exp_bias)

\* the significands with the hidden bit, left adjusted for the multiply
xsmulqpo_sig(f128, mag) ==
  LET sigmask == vec_mask128_f128sig
      x_hidden == vec_splat_u16(1)
      s32 == vec_and_bin128_2_vui32t(f128, sigmask)
      e16 == vec_andc(mag, sigmask)
      norm == vec_cmpgt(e16, q_zero, 16)
  IN  vec_slqi(vec_sel(s32, x_hidden, norm), 8)

xsmulqpo_product(a_sig, b_sig, p, q_sign, x_exp) ==
  IF vec_all_eq(a_sig, q_zero, 32) \/ vec_all_eq(b_sig, q_zero, 32)
  THEN q_sign
  ELSE xsmulqpo_carry(p.h, p.l, q_sign, xsmulqpo_exp(x_exp))

\* the finite path
xsmulqpo_finite(a, b, q_sign, a_mag, b_mag, x_exp) ==
  LET a_sig == xsmulqpo_sig(a, a_mag)
      b_sig == xsmulqpo_sig(b, b_mag)
  IN  xsmulqpo_product(a_sig, b_sig, vec_muludq(a_sig, b_sig), q_sign, x_exp)

\* variant: infinity times zero is not told from the other products
vec_xsmulqpo_infzero(a, b) ==
  LET exp_naninf == vec_mask64_f128exp
      magmask == vec_mask128_f128mag
      x_exp == vec_xxxexpqpp(a, b)
      a_mag == vec_and_bin128_2_vui32t(a, magmask)
      b_mag == vec_and_bin128_2_vui32t(b, magmask)
      a_sign == vec_andc_bin128_2_vui32t(a, magmask)
      b_sign == vec_andc_bin128_2_vui32t(b, magmask)
      q_sign == vec_xor(a_sign, b_sign)
      q_nan == vec_mask128_f128Qbit
      q_inf == vec_mask128_f128exp
  IN  IF vec_cmpud_all_lt(x_exp, exp_naninf)
      THEN xsmulqpo_finite(a, b, q_sign, a_mag, b_mag, x_exp)
      ELSE IF vec_all_isnanf128(a) THEN vec_or_bin128_2_vui32t(a, q_nan)
      ELSE IF vec_all_isnanf128(b) THEN vec_or_bin128_2_vui32t(b, q_nan)
      ELSE vec_or(q_inf, q_sign)

vec_xsmulqpo(a, b) ==
  LET exp_naninf == vec_mask64_f128exp
      magmask == vec_mask128_f128mag
      x_exp == vec_xxxexpqpp(a, b)
      a_mag == vec_and_bin128_2_vui32t(a, magmask)
      b_mag == vec_and_bin128_2_vui32t(b, magmask)
      a_sign == vec_andc_bin128_2_vui32t(a, magmask)
      b_sign == vec_andc_bin128_2_vui32t(b, magmask)
      q_sign == vec_xor(a_sign, b_sign)
      q_nan == vec_mask128_f128Qbit
      q_inf == vec_mask128_f128exp
  IN  IF vec_cmpud_all_lt(x_exp, exp_naninf)
      THEN xsmulqpo_finite(a, b, q_sign, a_mag, b_mag, x_exp)
      ELSE IF vec_all_isnanf128(a) THEN vec_or_bin128_2_vui32t(a, q_nan)
      ELSE IF vec_all_isnanf128(b) THEN vec_or_bin128_2_vui32t(b, q_nan)
      ELSE IF ~vec_cmpud_all_eq(x_exp, exp_naninf)
              /\ (vec_cmpuq_all_eq(a_mag, q_zero) \/ vec_cmpuq_all_eq(b_mag, q_zero))
      THEN vec_const_nanf128
      ELSE vec_or(q_inf, q_sign)

(***************************************************************************)
(* Comparisons: the zero-unordered (uz) and the IEEE unordered (u)         *)
(* families.                                                               *)
(***************************************************************************)
vec_isnanf128(f128) ==
  LET signmask == {127}
      expmask == 112..126
      tmp == vec_andc_bin128_2_vui32t(f128, signmask)
  IN  vec_cmpgtuq(tmp, expmask)

vec_isunorderedf128(a, b) == vec_or(vec_isnanf128(a), vec_isnanf128(b))

\* variant: the sign mask is taken to be clear whatever the sign
vec_setb_qp_clear(f128) == q_zero

vec_setb_qp(f128) ==
  LET shift == vec_splat_u8(7)
      splat == vec_splat(f128, VEC_BYTE_H, 8)
  IN  vec_sra(splat, shift)

vec_cmpequzqp(a, b) ==
  LET signmask == {127}
      or_ab == vec_or(a, b)
      eq_s == vec_cmpequq(or_ab, signmask)
      cmps == vec_cmpequq(a, b)
  IN  vec_or(cmps, eq_s)

vec_cmpequqp(a, b) ==
  LET signmask == {127}
      unordered == vec_isunorderedf128(a, b)
      or_ab == vec_or(a, b)
      eq_s == vec_cmpequq(or_ab, signmask)
      cmps == vec_cmpequq(a, b)
      r == vec_or(cmps, eq_s)
  IN  vec_andc(r, unordered)

vec_cmpgeuzqp(a, b) ==
  LET zero == q_zero
      signmask == {127}
      age0 == vec_setb_qp(a)
      vrap == vec_xor(a, signmask)
      vran == vec_subuqm(zero, a)
      vra == vec_sel(vrap, vran, age0)
      bge0 == vec_setb_qp(b)
      vrbp == vec_xor(b, signmask)
      vrbn == vec_subuqm(zero, b)
      vrb == vec_sel(vrbp, vrbn, bge0)
  IN  vec_cmpgeuq(vra, vrb)

vec_cmpgeuqp(a, b) ==
  LET zero == q_zero
      signmask == {127}
      unordered == vec_isunorderedf128(a, b)
      age0 == vec_setb_qp(a)
      vrap == vec_xor(a, signmask)
      vran == vec_subuqm(zero, a)
      vra == vec_sel(vrap, vran, age0)
      bge0 == vec_setb_qp(b)
      vrbp == vec_xor(b, signmask)
      vrbn == vec_subuqm(zero, b)
      vrb == vec_sel(vrbp, vrbn, bge0)
      r == vec_cmpgeuq(vra, vrb)
  IN  vec_andc(r, unordered)

vec_cmpgtuzqp(a, b) ==
  LET zero == q_zero
      signmask == {127}
      age0 == vec_setb_qp(a)
      vrap == vec_xor(a, signmask)
      vran == vec_subuqm(zero, a)
      vra == vec_sel(vrap, vran, age0)
      bge0 == vec_setb_qp(b)
      vrbp == vec_xor(b, signmask)
      vrbn == vec_subuqm(zero, b)
      vrb == vec_sel(vrbp, vrbn, bge0)
  IN  vec_cmpgtuq(vra, vrb)

vec_cmpgtuqp(a, b) ==
  LET zero == q_zero
      signmask == {127}
      unordered == vec_isunorderedf128(a, b)
      age0 == vec_setb_qp(a)
      vrap == vec_xor(a, signmask)
      vran == vec_subuqm(zero, a)
      vra == vec_sel(vrap, vran, age0)
      bge0 == vec_setb_qp(b)
      vrbp == vec_xor(b, signmask)
      vrbn == vec_subuqm(zero, b)
      vrb == vec_sel(vrbp, vrbn, bge0)
      r == vec_cmpgtuq(vra, vrb)
  IN  vec_andc(r, unordered)

vec_cmpleuzqp(a, b) ==
  LET zero == q_zero
      signmask == {127}
      age0 == vec_setb_qp(a)
      vrap == vec_xor(a, signmask)
      vran == vec_subuqm(zero, a)
      vra == vec_sel(vrap, vran, age0)
      bge0 == vec_setb_qp(b)
      vrbp == vec_xor(b, signmask)
      vrbn == vec_subuqm(zero, b)
      vrb == vec_sel(vrbp, vrbn, bge0)
  IN  vec_cmpleuq(vra, vrb)

vec_cmpleuqp(a, b) ==
  LET zero == q_zero
      signmask == {127}
      unordered == vec_isunorderedf128(a, b)
      age0 == vec_setb_qp(a)
      vrap == vec_xor(a, signmask)
      vran == vec_subuqm(zero, a)
      vra == vec_sel(vrap, vran, age0)
      bge0 == vec_setb_qp(b)
      vrbp == vec_xor(b, signmask)
      vrbn == vec_subuqm(zero, b)
      vrb == vec_sel(vrbp, vrbn, bge0)
      r == vec_cmpleuq(vra, vrb)
  IN  vec_andc(r, unordered)

vec_cmpltuzqp(a, b) ==
  LET zero == q_zero
      signmask == {127}
      age0 == vec_setb_qp(a)
      vrap == vec_xor(a, signmask)
      vran == vec_subuqm(zero, a)
      vra == vec_sel(vrap, vran, age0)
      bge0 == vec_setb_qp(b)
      vrbp == vec_xor(b, signmask)
      vrbn == vec_subuqm(zero, b)
      vrb == vec_sel(vrbp, vrbn, bge0)
  IN  vec_cmpltuq(vra, vrb)

vec_cmpltuqp(a, b) ==
  LET zero == q_zero
      signmask == {127}
      unordered == vec_isunorderedf128(a, b)
      age0 == vec_setb_qp(a)
      vrap == vec_xor(a, signmask)
      vran == vec_subuqm(zero, a)
      vra == vec_sel(vrap, vran, age0)
      bge0 == vec_setb_qp(b)
      vrbp == vec_xor(b, signmask)
      vrbn == vec_subuqm(zero, b)
      vrb == vec_sel(vrbp, vrbn, bge0)
      r == vec_cmpltuq(vra, vrb)
  IN  vec_andc(r, unordered)

vec_cmpneuzqp(a, b) ==
  LET signmask == {127}
      or_ab == vec_or(a, b)
      eq_s == vec_cmpequq(or_ab, signmask)
      cmps == vec_cmpequq(a, b)
  IN  vec_nor(cmps, eq_s)

vec_cmpneuqp(a, b) ==
  LET signmask == {127}
      unordered == vec_isunorderedf128(a, b)
      or_ab == vec_or(a, b)
      eq_s == vec_cmpequq(or_ab, signmask)
      cmps == vec_cmpequq(a, b)
      r == vec_nor(cmps, eq_s)
  IN  vec_or(r, unordered)

(***************************************************************************)
(* Classification.                                                         *)
(***************************************************************************)
VEC_W_H == 0

\* element-wise a = b, as a mask
vec_cmpeq(a, b, w) ==
  UNION {IF Lane(a, e, w) = Lane(b, e, w) THEN ElemBits(e, w) ELSE {}
         : e \in Elems(w)}

vec_isfinitef128(f128) ==
  LET expmask == 112..126
      tmp == vec_and_bin128_2_vui32t(f128, expmask)
      tmp2 == vec_cmpeq(tmp, expmask, 32)
      tmp3 == vec_splat(tmp2, VEC_W_H, 32)
  IN  vec_nor(tmp3, tmp3)

vec_isinff128(f128) ==
  LET signmask == {127}
      expmask == 112..126
      tmp == vec_andc_bin128_2_vui32t(f128, signmask)
  IN  vec_cmpequq(tmp, expmask)

vec_isnormalf128(f128) ==
  LET expmask == 112..126
      vec_zero == {}
      tmp == vec_and_bin128_2_vui32t(f128, expmask)
      result0 == vec_nor(vec_cmpeq(tmp, expmask, 32), vec_cmpeq(tmp, vec_zero, 32))
  IN  vec_splat(result0, VEC_W_H, 32)

\* variant: zero is not excluded
vec_issubnormalf128_zero(f128) ==
  LET signmask == {127}
      minnorm == {112}
      tmp == vec_andc_bin128_2_vui32t(f128, signmask)
  IN  vec_cmpltuq(tmp, minnorm)

vec_issubnormalf128(f128) ==
  LET signmask == {127}
      vec_zero == {}
      minnorm == {112}
      tmp == vec_andc_bin128_2_vui32t(f128, signmask)
      tmp2 == vec_cmpltuq(tmp, minnorm)
      tmpz == vec_cmpequq(tmp, vec_zero)
  IN  vec_andc(tmp2, tmpz)

vec_iszerof128(f128) ==
  LET vec_zero == {}
      signmask == {127}
      t128 == vec_andc_bin128_2_vui32t(f128, signmask)
  IN  vec_cmpequq(t128, vec_zero)

(***************************************************************************)
(* Comparisons: the total-order (to) family.                               *)
(***************************************************************************)
\* signed quadword a > b, a < b, as a mask
vec_cmpgtsq(a, b) == IF LtSigned(b, a, 128) THEN QW ELSE {}

vec_cmpltsq(a, b) == IF LtSigned(a, b, 128) THEN QW ELSE {}

vec_cmpeqtoqp(a, b) == vec_cmpequq(a, b)

\* variant: the signed compare is used whatever the sign of a
vec_cmpgttoqp_signed(a, b) == vec_cmpgtsq(a, b)

vec_cmpgttoqp(a, b) ==
  LET shift == vec_splat_u8(7)
      splatvfa == vec_splat(a, VEC_BYTE_H, 8)
      signbool == vec_sra(splatvfa, shift)
      agtb == vec_cmpgtsq(a, b)
      altb == vec_cmpltuq(a, b)
  IN  vec_sel(agtb, altb, signbool)

\* variant: negative zero is taken for positive zero before the compare
vec_cmplttoqp_zero(a, b) ==
  IF a = {127} /\ b = {} THEN q_zero ELSE vec_cmpltsq(a, b)

vec_cmplttoqp(a, b) ==
  LET shift == vec_splat_u8(7)
      splatvfa == vec_splat(a, VEC_BYTE_H, 8)
      signbool == vec_sra(splatvfa, shift)
      altb == vec_cmpltsq(a, b)
      agtb == vec_cmpgtuq(a, b)
  IN  vec_sel(altb, agtb, signbool)

(***************************************************************************)
(* Comparisons returning an int: the IEEE unordered vec_cmpqp_all_*        *)
(* predicates.  An int is TRUE for 1 and FALSE for 0.                      *)
(***************************************************************************)
vec_cmpuq_all_ne(a, b) == a # b

vec_cmpuq_all_lt(a, b) == LtBits(a, b)

vec_cmpuq_all_le(a, b) == ~LtBits(b, a)

vec_cmpuq_all_ge(a, b) == ~LtBits(a, b)

\* variant: only the first operand is tested for NaN
vec_all_isunorderedf128_first(a, b) == vec_all_isnanf128(a)

vec_all_isunorderedf128(a, b) == vec_all_isnanf128(a) \/ vec_all_isnanf128(b)

vec_cmpqp_all_eq(a, b) ==
  LET signmask == {127}
      or_ab == vec_or(a, b)
  IN  (vec_cmpuq_all_eq(or_ab, signmask) \/ vec_cmpuq_all_eq(a, b))
      /\ ~vec_all_isunorderedf128(a, b)

vec_cmpqp_all_ge(a, b) ==
  LET zero == q_zero
      signmask == {127}
      age0 == vec_setb_qp(a)
      vrap == vec_xor(a, signmask)
      vran == vec_subuqm(zero, a)
      vra == vec_sel(vrap, vran, age0)
      bge0 == vec_setb_qp(b)
      vrbp == vec_xor(b, signmask)
      vrbn == vec_subuqm(zero, b)
      vrb == vec_sel(vrbp, vrbn, bge0)
  IN  vec_cmpuq_all_ge(vra, vrb) /\ ~vec_all_isunorderedf128(a, b)

vec_cmpqp_all_gt(a, b) ==
  LET zero == q_zero
      signmask == {127}
      age0 == vec_setb_qp(a)
      vrap == vec_xor(a, signmask)
      vran == vec_subuqm(zero, a)
      vra == vec_sel(vrap, vran, age0)
      bge0 == vec_setb_qp(b)
      vrbp == vec_xor(b, signmask)
      vrbn == vec_subuqm(zero, b)
      vrb == vec_sel(vrbp, vrbn, bge0)
  IN  vec_cmpuq_all_gt(vra, vrb) /\ ~vec_all_isunorderedf128(a, b)

vec_cmpqp_all_le(a, b) ==
  LET zero == q_zero
      signmask == {127}
      age0 == vec_setb_qp(a)
      vrap == vec_xor(a, signmask)
      vran == vec_subuqm(zero, a)
      vra == vec_sel(vrap, vran, age0)
      bge0 == vec_setb_qp(b)
      vrbp == vec_xor(b, signmask)
      vrbn == vec_subuqm(zero, b)
      vrb == vec_sel(vrbp, vrbn, bge0)
  IN  vec_cmpuq_all_le(vra, vrb) /\ ~vec_all_isunorderedf128(a, b)

vec_cmpqp_all_lt(a, b) ==
  LET zero == q_zero
      signmask == {127}
      age0 == vec_setb_qp(a)
      vrap == vec_xor(a, signmask)
      vran == vec_subuqm(zero, a)
      vra == vec_sel(vrap, vran, age0)
      bge0 == vec_setb_qp(b)
      vrbp == vec_xor(b, signmask)
      vrbn == vec_subuqm(zero, b)
      vrb == vec_sel(vrbp, vrbn, bge0)
  IN  vec_cmpuq_all_lt(vra, vrb) /\ ~vec_all_isunorderedf128(a, b)

vec_cmpqp_all_ne(a, b) ==
  LET signmask == {127}
      or_ab == vec_or(a, b)
  IN  (vec_cmpuq_all_ne(or_ab, signmask) /\ vec_cmpuq_all_ne(a, b))
      \/ vec_all_isunorderedf128(a, b)

(***************************************************************************)
(* vec_xscvqpdpo: convert quad-precision to double-precision, round to     *)
(* odd.  The double is doubleword 0 of the result: sign bit 127, exponent  *)
(* bits 116..126, fraction bits 64..115.                                   *)
(***************************************************************************)
\* the doublewords {a[VEC_DW_L], b[VEC_DW_L]}
vec_mrgald(a, b) == ShiftUp(Lane(a, 1, 64), 64) \cup Lane(b, 1, 64)

\* the low 11 bits of each doubleword of exp placed in the exponent field of
\* the same doubleword of sig
vec_xviexpdp(sig, exp) ==
  LET expmask == (52..62) \cup (116..126)
      tmp == UNION {ShiftUp(ShiftUp(Lane(exp, e, 64), 52) \cap (0..63), ElemLo(e, 64))
                    : e \in Elems(64)}
  IN  vec_sel(sig, tmp, expmask)

\* CONST_VINT64_DW (h, l)
CONST_VINT64_DW(h, l) == BitsAt(h, 64) \cup BitsAt(l, 0)

vec_xsxexpqp(f128) ==
  LET expmask == vec_mask128_f128exp
      tmp == vec_and_bin128_2_vui32t(f128, expmask)
  IN  vec_sld(tmp, tmp, 10)

\* variant: the implicit bit is never restored
vec_xsxsigqp_nohidden(f128) == vec_and_bin128_2_vui32t(f128, vec_mask128_f128sig)

\* variant: the implicit bit is restored whenever the exponent is not zero
vec_xsxsigqp_nonzero(f128) ==
  LET tmp == vec_and_bin128_2_vui32t(f128, vec_mask128_f128exp)
      nonzero == vec_nor(vec_cmpeq(tmp, {}, 32), vec_cmpeq(tmp, {}, 32))
  IN  vec_sel(vec_and_bin128_2_vui32t(f128, vec_mask128_f128sig), nonzero,
              vec_mask128_f128Lbit)

vec_xsxsigqp(f128) ==
  LET zero == {}
      sigmask == vec_mask128_f128sig
      expmask == vec_mask128_f128exp
      hidden == vec_mask128_f128Lbit
      tmp == vec_and_bin128_2_vui32t(f128, expmask)
      normal == vec_nor(vec_cmpeq(tmp, expmask, 32), vec_cmpeq(tmp, zero, 32))
      t128 == vec_and_bin128_2_vui32t(f128, sigmask)
  IN  vec_sel(t128, normal, hidden)

\* 2**-1022 <= |f128| < 2**1024
xscvqpdpo_normal(q_sig0, q_exp) ==
  LET qpdp_delta == CONST_VINT64_DW(15360, 0)
      q_sig == vec_slqi(q_sig0, 4)
      d_X0 == vec_cmpgtud(q_sig, q_zero)
      d_X1 == vec_mrgald(q_zero, d_X0)
      d_X == vec_slqi(d_X1, 1)
      d_sig == vec_or(q_sig, d_X)
      d_exp == vec_subudm(q_exp, qpdp_delta)
  IN  [sig |-> d_sig, exp |-> d_exp]

\* variant: too high returns infinity
xscvqpdpo_high_inf ==
  [sig |-> {}, exp |-> CONST_VINT64_DW(2047, 0)]

\* too high: double max
xscvqpdpo_high ==
  [sig |-> 64..116, exp |-> CONST_VINT64_DW(2046, 0)]

\* |f128| < 2**-1022
xscvqpdpo_tiny(q_sig0, x_exp) ==
  LET exp_tiny == CONST_VINT64_DW(15361, 15361)
      exp_tinyr == CONST_VINT64_DW(15308, 15308)
      q_delta == vec_subudm(exp_tiny, x_exp)
      d_exp == q_zero
  IN  IF vec_cmpud_all_gt(x_exp, exp_tinyr)
      THEN LET q_sig == vec_slqi(q_sig0, 4)
               d_sig0 == vec_srq(q_sig, q_delta)
               d_X0 == vec_cmpgtud(d_sig0, q_zero)
               d_X1 == vec_mrgald(q_zero, d_X0)
               d_X == vec_slqi(d_X1, 1)
           IN  [sig |-> vec_or(d_sig0, d_X), exp |-> d_exp]
      ELSE LET d_X == vec_addcuq(q_sig0, q_ones)
           IN  [sig |-> vec_swapd(d_X), exp |-> d_exp]

\* infinity or NaN
xscvqpdpo_naninf(q_sig0) ==
  LET d_naninf == CONST_VINT64_DW(2047, 0)
      q_quiet == {111}
      is_inf == vec_cmpequq(q_sig0, q_zero)
      x_sig == vec_or(q_sig0, q_quiet)
      q_sig == vec_sel(x_sig, q_sig0, is_inf)
  IN  [sig |-> vec_slqi(q_sig, 4), exp |-> d_naninf]

xscvqpdpo_pack(d, q_sign) ==
  LET d_sig0 == d.sig \ ElemBits(VEC_DW_L, 64)
      d_sig == vec_or(d_sig0, q_sign)
  IN  vec_xviexpdp(d_sig, d.exp)

vec_xscvqpdpo(f128) ==
  LET exp_tiny == CONST_VINT64_DW(15361, 15361)
      exp_high == CONST_VINT64_DW(17406, 17406)
      signmask == {127}
      q_naninf == CONST_VINT64_DW(32767, 32767)
      q_exp == vec_xsxexpqp(f128)
      x_exp == vec_splatd(q_exp, VEC_DW_H)
      q_sig == vec_xsxsigqp(f128)
      q_sign == vec_and_bin128_2_vui32t(f128, signmask)
  IN  xscvqpdpo_pack(
        IF ~vec_cmpud_all_eq(x_exp, q_naninf)
        THEN IF vec_cmpud_all_ge(x_exp, exp_tiny)
             THEN IF vec_cmpud_all_le(x_exp, exp_high)
                  THEN xscvqpdpo_normal(q_sig, q_exp)
                  ELSE xscvqpdpo_high
             ELSE xscvqpdpo_tiny(q_sig, x_exp)
        ELSE xscvqpdpo_naninf(q_sig),
        q_sign)

(***************************************************************************)
(* vec_xscvdpqp: convert double-precision (doubleword 0) to                *)
(* quad-precision.                                                         *)
(***************************************************************************)
\* the exponent field of each doubleword, right justified
vec_xvxexpdp(f64) ==
  UNION {ShiftUp(Field(Lane(f64, e, 64), 52, 11), ElemLo(e, 64)) : e \in Elems(64)}

\* the fraction of each doubleword, with the implicit bit for a normal value
vec_xvxsigdp(f64) ==
  UNION {LET x == Lane(f64, e, 64)
             exp == Field(x, 52, 11)
         IN  ShiftUp(Field(x, 0, 52) \cup (IF exp # {} /\ exp # 0..10 THEN {52} ELSE {}),
                     ElemLo(e, 64))
         : e \in Elems(64)}

\* the count of leading zero bits of each doubleword
vec_clzd(v) ==
  UNION {LET x == Lane(v, e, 64)
         IN  BitsAt(IF x = {} THEN 64 ELSE 63 - MaxOf(x), ElemLo(e, 64))
         : e \in Elems(64)}

\* each doubleword shifted left by the low 6 bits of the same doubleword of sh
vec_vsld(v, sh) ==
  UNION {ShiftUp(ShiftUp(Lane(v, e, 64), NatOf(Field(Lane(sh, e, 64), 0, 6))) \cap (0..63),
                 ElemLo(e, 64))
         : e \in Elems(64)}

\* variant: a subnormal double is converted like a normal one
xscvdpqp_denorm_asnormal(d_sig0) ==
  [sig |-> vec_srqi(d_sig0, 4),
   exp |-> CONST_VINT64_DW(15360, 0)]

\* a subnormal double becomes a normal quad
xscvdpqp_denorm(d_sig0) ==
  LET q_denorm == CONST_VINT64_DW(15372, 0)
      f64_clz == vec_clzd(d_sig0)
      d_sig == vec_vsld(d_sig0, f64_clz)
      q_exp == vec_subudm(q_denorm, f64_clz)
      q_sig == vec_srqi(d_sig, 15)
  IN  [sig |-> q_sig, exp |-> q_exp]

vec_xscvdpqp(f64in) ==
  LET exp_delta == CONST_VINT64_DW(15360, 0)
      d_naninf == CONST_VINT64_DW(2047, 0)
      d_denorm == CONST_VINT64_DW(0, 0)
      signmask == {127}
      f64 == f64in \ ElemBits(VEC_DW_L, 64)
      d_exp == vec_xvxexpdp(f64)
      d_sig == vec_xvxsigdp(f64)
      q_sign == vec_and(f64, signmask)
      q == IF ~vec_cmpud_all_eq(d_exp, d_naninf)
           THEN IF ~vec_cmpud_all_eq(d_exp, d_denorm)
                THEN [sig |-> vec_srqi(d_sig, 4), exp |-> vec_addudm(d_exp, exp_delta)]
                ELSE IF vec_cmpud_all_eq(d_sig, d_denorm)
                THEN [sig |-> d_sig, exp |-> d_exp]
                ELSE xscvdpqp_denorm(d_sig)
           ELSE [sig |-> vec_srqi(d_sig, 4), exp |-> CONST_VINT64_DW(32767, 0)]
      q_sig == vec_or(q.sig, q_sign)
  IN  vec_xsiexpqp(q_sig, q.exp)

(***************************************************************************)
(* vec_xscvudqp, vec_xscvsdqp: convert a doubleword integer (doubleword 0) *)
(* to quad-precision.                                                      *)
(***************************************************************************)
vec_xfer_vui64t_2_bin128(f128) == f128

vec_xscvudqp(int64in) ==
  LET d_zero == CONST_VINT64_DW(0, 0)
      int64 == int64in \ ElemBits(VEC_DW_L, 64)
  IN  IF vec_cmpud_all_eq(int64, d_zero)
      THEN vec_xfer_vui64t_2_bin128(d_zero)
      ELSE LET q_expm == CONST_VINT64_DW(16383 + 63, 0)
               i64_clz == vec_clzd(int64)
               d_sig == vec_vsld(int64, i64_clz)
               q_exp == vec_subudm(q_expm, i64_clz)
               q_sig == vec_srqi(d_sig, 15)
           IN  vec_xsiexpqp(q_sig, q_exp)

\* variant: the two's complement pattern is taken as the magnitude
xscvsdqp_mag_raw(int64, q_sign) == vec_andc(int64, q_sign)

\* two's complement to signed magnitude
xscvsdqp_mag(int64, q_sign) ==
  LET d_zero == CONST_VINT64_DW(0, 0)
      signmask == {127}
      d_neg == vec_subudm(d_zero, int64)
      d_sign == vec_cmpequd(q_sign, signmask)
  IN  vec_sel(int64, d_neg, d_sign)

vec_xscvsdqp(int64in) ==
  LET d_zero == CONST_VINT64_DW(0, 0)
      signmask == {127}
      int64 == int64in \ ElemBits(VEC_DW_L, 64)
  IN  IF vec_cmpud_all_eq(int64, d_zero)
      THEN vec_xfer_vui64t_2_bin128(d_zero)
      ELSE LET q_expm == CONST_VINT64_DW(16383 + 63, 0)
               q_sign == vec_and(int64, signmask)
               d_sig0 == xscvsdqp_mag(int64, q_sign)
               i64_clz == vec_clzd(d_sig0)
               d_sig == vec_vsld(d_sig0, i64_clz)
               q_exp == vec_subudm(q_expm, i64_clz)
               q_sig0 == vec_srqi(d_sig, 15)
               q_sig == vec_or(q_sig0, q_sign)
           IN  vec_xsiexpqp(q_sig, q_exp)

(***************************************************************************)
(* vec_xscvuqqp, vec_xscvsqqp: convert a quadword integer to               *)
(* quad-precision, round to nearest even.                                  *)
(***************************************************************************)
\* the carry bit of a quadword, as a mask
vec_setb_cyq(cy) == IF 0 \in cy THEN QW ELSE {}

\* the two's complement of a quadword
vec_negsq(v) == vec_subuqm(q_zero, v)

vec_xfer_vui128t_2_bin128(f128) == f128

\* variant: the low significand bit is not copied into the sticky bits, a
\* tie is always truncated
xscvuqqp_round_notie(q_sig0, q_exp0) ==
  LET RXmask == BitsAt(16383, 0)
      q_carry == vec_addcuq(q_sig0, RXmask)
      q_sig2 == vec_adduqm(q_sig0, RXmask)
      qcmask == vec_setb_cyq(q_carry)
      q_sigc == vec_sldqi(q_carry, q_sig2, 112)
      q_sig3 == vec_srqi(q_sig2, 15)
  IN  [sig |-> vec_sel(q_sig3, q_sigc, qcmask),
       exp |-> vec_swapd(vec_addudm(q_exp0, q_carry))]

\* round the 113-bit significand in the high order bits of q_sig0 from the
\* GRX bits in the low order 15 bits
xscvuqqp_round(q_sig0, q_exp0) ==
  LET lowmask == {0}
      RXmask == BitsAt(16383, 0)
      q_odd0 == vec_srhi(q_sig0, 15)
      q_odd == vec_and(q_odd0, lowmask)
      q_sig1 == vec_or(q_sig0, q_odd)
      q_carry == vec_addcuq(q_sig1, RXmask)
      q_sig2 == vec_adduqm(q_sig1, RXmask)
      qcmask == vec_setb_cyq(q_carry)
      q_sigc == vec_sldqi(q_carry, q_sig2, 112)
      q_sig3 == vec_srqi(q_sig2, 15)
  IN  [sig |-> vec_sel(q_sig3, q_sigc, qcmask),
       exp |-> vec_swapd(vec_addudm(q_exp0, q_carry))]

vec_xscvuqqp(int128) ==
  IF vec_cmpuq_all_eq(int128, q_zero)
  THEN vec_xfer_vui128t_2_bin128(q_zero)
  ELSE LET q_expm == CONST_VINT64_DW(0, 16383 + 127)
           i64_clz == vec_clzq(int128)
           q_sig == vec_slq(int128, i64_clz)
           q_exp == vec_subudm(q_expm, i64_clz)
           q == xscvuqqp_round(q_sig, q_exp)
       IN  vec_xsiexpqp(q.sig, q.exp)

xscvsqqp_round(q_sig0, q_exp0) ==
  LET lowmask == {0}
      RXmask == BitsAt(16383, 0)
      q_odd0 == vec_srhi(q_sig0, 15)
      q_odd == vec_and(q_odd0, lowmask)
      q_sig1 == vec_or(q_sig0, q_odd)
      q_carry == vec_addcuq(q_sig1, RXmask)
      q_sig2 == vec_adduqm(q_sig1, RXmask)
      qcmask == vec_setb_cyq(q_carry)
      q_sigc == vec_sldqi(q_carry, q_sig2, 112)
      q_sig3 == vec_srqi(q_sig2, 15)
  IN  [sig |-> vec_sel(q_sig3, q_sigc, qcmask),
       exp |-> vec_swapd(vec_addudm(q_exp0, q_carry))]

vec_xscvsqqp(int128) ==
  IF vec_cmpuq_all_eq(int128, q_zero)
  THEN vec_xfer_vui128t_2_bin128(q_zero)
  ELSE LET signmask == {127}
           q_sign == vec_and(int128, signmask)
           q_neg == vec_negsq(int128)
           b_sign == vec_setb_sq(int128)
           q_sig0 == vec_seluq(int128, q_neg, b_sign)
           q_expm == CONST_VINT64_DW(0, 16383 + 127)
           i64_clz == vec_clzq(q_sig0)
           q_sig == vec_slq(q_sig0, i64_clz)
           q_exp == vec_subudm(q_expm, i64_clz)
           q == xscvsqqp_round(q_sig, q_exp)
       IN  vec_xsiexpqp(vec_or(q.sig, q_sign), q.exp)

(***************************************************************************)
(* Quad-precision to unsigned integer, truncating (vec_xscvqpudz,          *)
(* vec_xscvqpuqz).                                                         *)
(***************************************************************************)
\* each doubleword shifted right by the low 6 bits of the same doubleword of sh
vec_vsrd(v, sh) ==
  UNION {ShiftUp(ShiftDown(Lane(v, e, 64), NatOf(Field(Lane(sh, e, 64), 0, 6))),
                 ElemLo(e, 64))
         : e \in Elems(64)}

\* variant: an infinity saturates whatever its sign
xscvqpudz_naninf_nosign(q_sig, b_sign) == vec_cmpequq(q_sig, q_zero)

\* the exponent is all ones: infinity or NaN
xscvqpudz_naninf(q_sig, b_sign) ==
  LET is_inf == vec_cmpequq(q_sig, q_zero)
  IN  vec_andc(is_inf, b_sign)

vec_xscvqpudz(f128) ==
  LET exp_low == CONST_VINT64_DW(16383, 16383)
      exp_high == CONST_VINT64_DW(16383 + 64, 16383 + 64)
      exp_63 == CONST_VINT64_DW(16383 + 63, 16383 + 63)
      q_naninf == CONST_VINT64_DW(32767, 32767)
      q_exp == vec_xsxexpqp(f128)
      q_sig == vec_xsxsigqp(f128)
      x_exp == vec_splatd(q_exp, VEC_DW_H)
      b_sign == vec_setb_qp(f128)
      result0 ==
        IF ~vec_cmpud_all_eq(x_exp, q_naninf)
        THEN IF vec_cmpud_all_ge(x_exp, exp_low) /\ vec_cmpud_all_eq(b_sign, q_zero)
             THEN IF vec_cmpud_all_lt(x_exp, exp_high)
                  THEN vec_vsrd(vec_slqi(q_sig, 15), vec_subudm(exp_63, x_exp))
                  ELSE q_ones
             ELSE q_zero
        ELSE xscvqpudz_naninf(q_sig, b_sign)
  IN  vec_mrgahd(result0, q_zero)

vec_xscvqpuqz(f128) ==
  LET exp_low == CONST_VINT64_DW(16383, 16383)
      exp_high == CONST_VINT64_DW(16383 + 128, 16383 + 128)
      exp_127 == CONST_VINT64_DW(16383 + 127, 16383 + 127)
      q_naninf == CONST_VINT64_DW(32767, 32767)
      q_exp == vec_xsxexpqp(f128)
      q_sig == vec_xsxsigqp(f128)
      x_exp == vec_splatd(q_exp, VEC_DW_H)
      b_sign == vec_setb_qp(f128)
  IN  IF ~vec_cmpud_all_eq(x_exp, q_naninf)
      THEN IF vec_cmpud_all_ge(x_exp, exp_low) /\ vec_cmpud_all_eq(b_sign, q_zero)
           THEN IF vec_cmpud_all_lt(x_exp, exp_high)
                THEN vec_srq(vec_slqi(q_sig, 15), vec_subudm(exp_127, x_exp))
                ELSE q_ones
           ELSE q_zero
      ELSE vec_andc(vec_cmpequq(q_sig, q_zero), b_sign)

(***************************************************************************)
(* Compare exponents: vec_cmpqp_exp_eq, _gt, _lt, _unordered.              *)
(***************************************************************************)
vec_cmpqp_exp_eq(a, b) ==
  LET expmask == BitsAt(32767, 112)
      vra == vec_and_bin128_2_vui32t(a, expmask)
      vrb == vec_and_bin128_2_vui32t(b, expmask)
  IN  vec_cmpuq_all_eq(vra, vrb)

vec_cmpqp_exp_gt(a, b) ==
  LET expmask == BitsAt(32767, 112)
      vra == vec_and_bin128_2_vui32t(a, expmask)
      vrb == vec_and_bin128_2_vui32t(b, expmask)
  IN  vec_cmpuq_all_gt(vra, vrb)

vec_cmpqp_exp_lt(a, b) ==
  LET expmask == BitsAt(32767, 112)
      vra == vec_and_bin128_2_vui32t(a, expmask)
      vrb == vec_and_bin128_2_vui32t(b, expmask)
  IN  vec_cmpuq_all_lt(vra, vrb)

vec_cmpqp_exp_unordered(a, b) ==
  LET expmask == BitsAt(32767, 112)
      vra == vec_and_bin128_2_vui32t(a, expmask)
      vrb == vec_and_bin128_2_vui32t(b, expmask)
  IN  vec_cmpuq_all_lt(vra, vrb)

(***************************************************************************)
(* Quadword add with carry (vec_addcq, vec_addeq): the sum and the carry   *)
(* that is written through the first argument.                             *)
(***************************************************************************)
vec_addcq(a, b) == [co |-> vec_addcuq(a, b), sum |-> vec_adduqm(a, b)]

\* variant: the carry in is ignored
vec_addeq_nocarryin(a, b, ci) == vec_addcq(a, b)

\* the carry in is bit 0 of ci
vec_addeq(a, b, ci) ==
  LET r == AddRange(a, b, 0, 16, IF 0 \in ci THEN 1 ELSE 0)
  IN  [co |-> BitsAt(r.c, 0), sum |-> r.s]

\* the operands i, j and the expected sum e and carry ec of test_addcq
test_addcq ==
  {[i |-> {0}, j |-> QW, e |-> {}, ec |-> {0}],
   [i |-> {0}, j |-> QW \ {112}, e |-> 112..127, ec |-> {}],
   [i |-> {0}, j |-> QW \ {96}, e |-> 96..127, ec |-> {}],
   [i |-> {32}, j |-> 32..127, e |-> {}, ec |-> {0}],
   [i |-> {64, 33, 1, 0}, j |-> 64..127, e |-> {33, 1, 0}, ec |-> {0}],
   [i |-> {96, 65, 33, 32, 2}, j |-> 96..127, e |-> {65, 33, 32, 2}, ec |-> {0}]}

\* the operands i, j, the carry in l and the expected sum e and carry ec of
\* test_addeq
test_addeq ==
  {[i |-> 0..31, j |-> 0..31, l |-> {0}, e |-> 0..32, ec |-> {}],
   [i |-> {0}, j |-> QW, l |-> {}, e |-> {}, ec |-> {0}],
   [i |-> {}, j |-> QW, l |-> {0}, e |-> {}, ec |-> {0}],
   [i |-> {1}, j |-> QW, l |-> {0}, e |-> {1}, ec |-> {0}],
   [i |-> {32}, j |-> 32..127, l |-> {0}, e |-> {0}, ec |-> {0}],
   [i |-> {}, j |-> QW \ {112}, l |-> {0}, e |-> 112..127, ec |-> {}],
   [i |-> {0}, j |-> QW \ {112}, l |-> {0}, e |-> (112..127) \cup {0}, ec |-> {}]}

(***************************************************************************)
(* The remaining total-order compares and the compares that return int     *)
(* for the total-order and unordered-as-zero families.                     *)
(***************************************************************************)
vec_splat_u32(n) == vec_splat(BitsAt(n, 96), 0, 32)

vec_cmpgesq(a, b) == IF ~LtSigned(a, b, 128) THEN QW ELSE {}

vec_cmplesq(a, b) == IF ~LtSigned(b, a, 128) THEN QW ELSE {}

\* every w-bit element of a differs from the same element of b
vec_all_ne(a, b, w) == \A e \in Elems(w) : Lane(a, e, w) # Lane(b, e, w)

vec_cmpgetoqp(a, b) ==
  LET shift == vec_splat_u8(7)
      splatvfa == vec_splat(a, VEC_BYTE_H, 8)
      signbool == vec_sra(splatvfa, shift)
      agtb == vec_cmpgesq(a, b)
      altb == vec_cmpleuq(a, b)
  IN  vec_sel(agtb, altb, signbool)

vec_cmpletoqp(a, b) ==
  LET shift == vec_splat_u8(7)
      splatvfa == vec_splat(a, VEC_BYTE_H, 8)
      signbool == vec_sra(splatvfa, shift)
      altb == vec_cmplesq(a, b)
      agtb == vec_cmpgeuq(a, b)
  IN  vec_sel(altb, agtb, signbool)

vec_cmpnetoqp(a, b) == vec_cmpneuq(a, b)

vec_cmpqp_all_toeq(a, b) == vec_cmpuq_all_eq(a, b)

vec_cmpqp_all_tone(a, b) == vec_cmpuq_all_ne(a, b)

\* variant: equal operands do not compare greater or equal
vec_cmpqp_all_toge_gt(a, b) ==
  LET signbool == vec_sra(vec_splat(a, VEC_BYTE_H, 8), vec_splat_u8(7))
  IN  vec_all_ne(vec_sel(vec_cmpgtsq(a, b), vec_cmpltuq(a, b), signbool),
                 vec_splat_u32(0), 32)

vec_cmpqp_all_toge(a, b) ==
  LET shift == vec_splat_u8(7)
      zeros == vec_splat_u32(0)
      splatvfa == vec_splat(a, VEC_BYTE_H, 8)
      signbool == vec_sra(splatvfa, shift)
      agtb == vec_cmpgesq(a, b)
      altb == vec_cmpleuq(a, b)
      togt == vec_sel(agtb, altb, signbool)
  IN  vec_all_ne(togt, zeros, 32)

vec_cmpqp_all_togt(a, b) ==
  LET shift == vec_splat_u8(7)
      zeros == vec_splat_u32(0)
      splatvfa == vec_splat(a, VEC_BYTE_H, 8)
      signbool == vec_sra(splatvfa, shift)
      agtb == vec_cmpgtsq(a, b)
      altb == vec_cmpltuq(a, b)
      togt == vec_sel(agtb, altb, signbool)
  IN  vec_all_ne(togt, zeros, 32)

vec_cmpqp_all_tole(a, b) ==
  LET shift == vec_splat_u8(7)
      zeros == vec_splat_u32(0)
      splatvfa == vec_splat(a, VEC_BYTE_H, 8)
      signbool == vec_sra(splatvfa, shift)
      altb == vec_cmplesq(a, b)
      agtb == vec_cmpgeuq(a, b)
      tolt == vec_sel(altb, agtb, signbool)
  IN  vec_all_ne(tolt, zeros, 32)

vec_cmpqp_all_tolt(a, b) ==
  LET shift == vec_splat_u8(7)
      zeros == vec_splat_u32(0)
      splatvfa == vec_splat(a, VEC_BYTE_H, 8)
      signbool == vec_sra(splatvfa, shift)
      altb == vec_cmpltsq(a, b)
      agtb == vec_cmpgtuq(a, b)
      tolt == vec_sel(altb, agtb, signbool)
  IN  vec_all_ne(tolt, zeros, 32)

vec_cmpqp_all_uzeq(a, b) ==
  LET signmask == {127}
      or_ab == vec_or(a, b)
  IN  vec_cmpuq_all_eq(or_ab, signmask) \/ vec_cmpuq_all_eq(a, b)

vec_cmpqp_all_uzne(a, b) ==
  LET signmask == {127}
      or_ab == vec_or(a, b)
  IN  vec_cmpuq_all_ne(or_ab, signmask) /\ vec_cmpuq_all_ne(a, b)

vec_cmpqp_all_uzge(a, b) ==
  LET zero == q_zero
      signmask == {127}
      age0 == vec_setb_qp(a)
      vrap == vec_xor(a, signmask)
      vran == vec_subuqm(zero, a)
      vra == vec_sel(vrap, vran, age0)
      bge0 == vec_setb_qp(b)
      vrbp == vec_xor(b, signmask)
      vrbn == vec_subuqm(zero, b)
      vrb == vec_sel(vrbp, vrbn, bge0)
  IN  vec_cmpuq_all_ge(vra, vrb)

vec_cmpqp_all_uzgt(a, b) ==
  LET zero == q_zero
      signmask == {127}
      age0 == vec_setb_qp(a)
      vrap == vec_xor(a, signmask)
      vran == vec_subuqm(zero, a)
      vra == vec_sel(vrap, vran, age0)
      bge0 == vec_setb_qp(b)
      vrbp == vec_xor(b, signmask)
      vrbn == vec_subuqm(zero, b)
      vrb == vec_sel(vrbp, vrbn, bge0)
  IN  vec_cmpuq_all_gt(vra, vrb)

vec_cmpqp_all_uzle(a, b) ==
  LET zero == q_zero
      signmask == {127}
      age0 == vec_setb_qp(a)
      vrap == vec_xor(a, signmask)
      vran == vec_subuqm(zero, a)
      vra == vec_sel(vrap, vran, age0)
      bge0 == vec_setb_qp(b)
      vrbp == vec_xor(b, signmask)
      vrbn == vec_subuqm(zero, b)
      vrb == vec_sel(vrbp, vrbn, bge0)
  IN  vec_cmpuq_all_le(vra, vrb)

vec_cmpqp_all_uzlt(a, b) ==
  LET zero == q_zero
      signmask == {127}
      age0 == vec_setb_qp(a)
      vrap == vec_xor(a, signmask)
      vran == vec_subuqm(zero, a)
      vra == vec_sel(vrap, vran, age0)
      bge0 == vec_setb_qp(b)
      vrbp == vec_xor(b, signmask)
      vrbn == vec_subuqm(zero, b)
      vrb == vec_sel(vrbp, vrbn, bge0)
  IN  vec_cmpuq_all_lt(vra, vrb)

(***************************************************************************)
(* The variable shifts of the 128-bit shift primitives.  For each function *)
(* the shifts one call executes: the site, the count operand's low         *)
(* doubleword (the primitives use its low 7 bits), whether the shifted     *)
(* value is selected into what follows, and the value that goes on.        *)
(***************************************************************************)
Shift(site, sh, used, out) ==
  [site |-> site, count |-> Lane(sh, VEC_DW_L, 64), used |-> used, out |-> out]

\* vec_slq (s_sig, d_exp) where the significand sum is below the normal range
xsaddqpo_norm_shifts(s_sig, q_exp) ==
  LET exp_min == vec_splat_u64(1)
      t_sig_L == vec_splat_u8(7)
      t_sig_C == vec_splat_u8(15)
      t_sig == vec_splat(s_sig, 1, 8)
      exp_12 == vec_splat_u64(12)
      c_exp == vec_subudm(vec_splatd(vec_clzq(s_sig), VEC_DW_L), exp_12)
      d_exp == vec_minud(c_exp, vec_subudm(q_exp, exp_min))
      nrm_mask == vec_cmpgtsd(q_exp, exp_min)
      c_sig == vec_slq(s_sig, d_exp)
  IN  IF vec_all_gt(t_sig, t_sig_C, 8) THEN {}
      ELSE IF vec_all_le(t_sig, t_sig_L, 8)
      THEN {Shift("norm slq", d_exp, nrm_mask # q_zero,
                  vec_seluq(s_sig, c_sig, nrm_mask))}
      ELSE {}

xsaddqpo_sum_shifts(diff_sign, q_exp, a_sig, b_sig) ==
  LET add_sig == vec_adduqm(a_sig, b_sig)
      sub_sig == vec_subuqm(a_sig, b_sig)
      s_sig == vec_seluq(add_sig, sub_sig, diff_sign)
  IN  IF vec_cmpuq_all_eq(s_sig, q_zero) THEN {}
      ELSE xsaddqpo_norm_shifts(s_sig, q_exp)

\* variant: a difference of 128 is still shifted
xsaddqpo_align_shifts_le(a_exp, b_exp, b_sig) ==
  LET exp_128 == vec_const64_f128_128
      d_exp == vec_subudm(a_exp, b_exp)
      exp_mask == vec_nor(vec_cmpgtud(d_exp, exp_128), vec_cmpgtud(d_exp, exp_128))
      l_exp == vec_subudm(exp_128, d_exp)
      t_sig == vec_seluq(q_zero, vec_srq(b_sig, d_exp), exp_mask)
      x_bits == vec_seluq(b_sig, vec_slq(b_sig, l_exp), exp_mask)
  IN  IF vec_cmpud_all_lt(b_exp, a_exp)
      THEN {Shift("align srq", d_exp, exp_mask # q_zero, t_sig),
            Shift("align slq", l_exp, exp_mask # q_zero, x_bits)}
      ELSE {}

\* vec_srq (b_sig, d_exp) and vec_slq (b_sig, l_exp) of the alignment
xsaddqpo_align_shifts(a_exp, b_exp, b_sig) ==
  LET exp_128 == vec_const64_f128_128
      d_exp == vec_subudm(a_exp, b_exp)
      exp_mask == vec_cmpltud(d_exp, exp_128)
      l_exp == vec_subudm(exp_128, d_exp)
      t_sig == vec_seluq(q_zero, vec_srq(b_sig, d_exp), exp_mask)
      x_bits == vec_seluq(b_sig, vec_slq(b_sig, l_exp), exp_mask)
  IN  IF vec_cmpud_all_lt(b_exp, a_exp)
      THEN {Shift("align srq", d_exp, exp_mask # q_zero, t_sig),
            Shift("align slq", l_exp, exp_mask # q_zero, x_bits)}
      ELSE {}

xsaddqpo_swap_shifts(diff_sign, a_lt_b, x_exp, a_tmp, b_tmp) ==
  LET x_tmp == vec_swapd(x_exp)
      s_exp == vec_selud(x_exp, x_tmp, a_lt_b)
      a_exp == vec_splatd(s_exp, VEC_DW_H)
      b_exp == vec_splatd(s_exp, VEC_DW_L)
      a_sig == vec_seluq(a_tmp, b_tmp, a_lt_b)
      b_sig == vec_seluq(b_tmp, a_tmp, a_lt_b)
  IN  xsaddqpo_align_shifts(a_exp, b_exp, b_sig)
      \cup xsaddqpo_sum_shifts(diff_sign, a_exp, a_sig,
                               xsaddqpo_align(a_exp, b_exp, b_sig))

xsaddqpo_finite_shifts(a_sign, b_sign, a_mag, b_mag, x_exp) ==
  LET exp_min == vec_splat_u64(1)
      sigmask == vec_mask128_f128sig
      hidden == vec_mask128_f128Lbit
      a_s32 == vec_and(a_mag, sigmask)
      b_s32 == vec_and(b_mag, sigmask)
      x_norm == vec_cmpgt(x_exp, q_zero, 32)
      a_norm == vec_splat(x_norm, VEC_WE_1, 32)
      b_norm == vec_splat(x_norm, VEC_WE_3, 32)
      a_sig == vec_slqi(vec_sel(a_s32, a_norm, hidden), 3)
      b_sig == vec_slqi(vec_sel(b_s32, b_norm, hidden), 3)
      q_sign == vec_xor(a_sign, b_sign)
      diff_sign == vec_setb_sq(q_sign)
      a_lt_b == vec_cmpltuq(a_mag, b_mag)
  IN  xsaddqpo_swap_shifts(diff_sign, a_lt_b,
                           vec_selud(exp_min, x_exp, x_norm), a_sig, b_sig)

vec_xsaddqpo_shifts(a, b) ==
  LET magmask == vec_mask128_f128mag
      exp_naninf == vec_mask64_f128exp
      x_exp == vec_xxxexpqpp(a, b)
      a_mag == vec_and_bin128_2_vui32t(a, magmask)
      b_mag == vec_and_bin128_2_vui32t(b, magmask)
      a_sign == vec_andc_bin128_2_vui32t(a, magmask)
      b_sign == vec_andc_bin128_2_vui32t(b, magmask)
  IN  IF vec_cmpud_all_lt(x_exp, exp_naninf)
      THEN xsaddqpo_finite_shifts(a_sign, b_sign, a_mag, b_mag, x_exp)
      ELSE {}

\* vec_slq (s_sig, d_exp) where the significand sum is below the normal range
xssubqpo_norm_shifts(s_sig, q_exp) ==
  LET exp_min == vec_splat_u64(1)
      t_sig_L == vec_splat_u8(7)
      t_sig_C == vec_splat_u8(15)
      t_sig == vec_splat(s_sig, 1, 8)
      exp_12 == vec_splat_u64(12)
      c_exp == vec_subudm(vec_splatd(vec_clzq(s_sig), VEC_DW_L), exp_12)
      d_exp == vec_minud(c_exp, vec_subudm(q_exp, exp_min))
      nrm_mask == vec_cmpgtsd(q_exp, exp_min)
      c_sig == vec_slq(s_sig, d_exp)
  IN  IF vec_all_gt(t_sig, t_sig_C, 8) THEN {}
      ELSE IF vec_all_le(t_sig, t_sig_L, 8)
      THEN {Shift("norm slq", d_exp, nrm_mask # q_zero,
                  vec_seluq(s_sig, c_sig, nrm_mask))}
      ELSE {}

xssubqpo_sum_shifts(diff_sign, q_exp, a_sig, b_sig) ==
  LET add_sig == vec_adduqm(a_sig, b_sig)
      sub_sig == vec_subuqm(a_sig, b_sig)
      s_sig == vec_seluq(add_sig, sub_sig, diff_sign)
  IN  IF vec_cmpuq_all_eq(s_sig, q_zero) THEN {}
      ELSE xssubqpo_norm_shifts(s_sig, q_exp)

\* vec_srq (b_sig, d_exp) and vec_slq (b_sig, l_exp) of the alignment
xssubqpo_align_shifts(a_exp, b_exp, b_sig) ==
  LET exp_128 == vec_const64_f128_128
      d_exp == vec_subudm(a_exp, b_exp)
      exp_mask == vec_cmpltud(d_exp, exp_128)
      l_exp == vec_subudm(exp_128, d_exp)
      t_sig == vec_seluq(q_zero, vec_srq(b_sig, d_exp), exp_mask)
      x_bits == vec_seluq(b_sig, vec_slq(b_sig, l_exp), exp_mask)
  IN  IF vec_cmpud_all_lt(b_exp, a_exp)
      THEN {Shift("align srq", d_exp, exp_mask # q_zero, t_sig),
            Shift("align slq", l_exp, exp_mask # q_zero, x_bits)}
      ELSE {}

xssubqpo_swap_shifts(diff_sign, a_lt_b, x_exp, a_tmp, b_tmp) ==
  LET x_tmp == vec_swapd(x_exp)
      s_exp == vec_selud(x_exp, x_tmp, a_lt_b)
      a_exp == vec_splatd(s_exp, VEC_DW_H)
      b_exp == vec_splatd(s_exp, VEC_DW_L)
      a_sig == vec_seluq(a_tmp, b_tmp, a_lt_b)
      b_sig == vec_seluq(b_tmp, a_tmp, a_lt_b)
  IN  xssubqpo_align_shifts(a_exp, b_exp, b_sig)
      \cup xssubqpo_sum_shifts(diff_sign, a_exp, a_sig,
                               xssubqpo_align(a_exp, b_exp, b_sig))

xssubqpo_finite_shifts(a_sign, b_sign0, a_mag, b_mag, x_exp) ==
  LET magmask == vec_mask128_f128mag
      exp_min == vec_splat_u64(1)
      sigmask == vec_mask128_f128sig
      hidden == vec_mask128_f128Lbit
      a_s32 == vec_and(a_mag, sigmask)
      b_s32 == vec_and(b_mag, sigmask)
      x_norm == vec_cmpgt(x_exp, q_zero, 32)
      a_norm == vec_splat(x_norm, VEC_WE_1, 32)
      b_norm == vec_splat(x_norm, VEC_WE_3, 32)
      a_sig == vec_slqi(vec_sel(a_s32, a_norm, hidden), 3)
      b_sig == vec_slqi(vec_sel(b_s32, b_norm, hidden), 3)
      signmask == vec_nor(magmask, magmask)
      b_sign == vec_xor(signmask, b_sign0)
      q_sign == vec_xor(a_sign, b_sign)
      diff_sign == vec_setb_sq(q_sign)
      a_lt_b == vec_cmpltuq(a_mag, b_mag)
  IN  xssubqpo_swap_shifts(diff_sign, a_lt_b,
                           vec_selud(exp_min, x_exp, x_norm), a_sig, b_sig)

vec_xssubqpo_shifts(a, b) ==
  LET magmask == vec_mask128_f128mag
      exp_naninf == vec_mask64_f128exp
      x_exp == vec_xxxexpqpp(a, b)
      a_mag == vec_and_bin128_2_vui32t(a, magmask)
      b_mag == vec_and_bin128_2_vui32t(b, magmask)
      a_sign == vec_andc_bin128_2_vui32t(a, magmask)
      b_sign == vec_andc_bin128_2_vui32t(b, magmask)
  IN  IF vec_cmpud_all_lt(x_exp, exp_naninf)
      THEN xssubqpo_finite_shifts(a_sign, b_sign, a_mag, b_mag, x_exp)
      ELSE {}

\* vec_sldq (p_sig_h, p_sig_l, d_exp) and vec_slq (p_sig_l, d_exp) where the
\* product is below the normal range and the exponent is above Emin
xsmulqpo_denorm_shifts(p_sig_h, p_sig_l, q_exp) ==
  LET exp_min == vec_splat_u64(1)
      t_sig == vec_splat(p_sig_h, VEC_HW_H, 16)
      exp_15 == vec_splat_u64(15)
      c_exp == vec_subudm(vec_splatd(vec_clzq(p_sig_h), VEC_DW_L), exp_15)
      d_exp == vec_minud(c_exp, vec_subudm(q_exp, exp_min))
  IN  IF vec_all_eq(t_sig, q_zero, 16) /\ vec_cmpsd_all_gt(q_exp, exp_min)
      THEN {Shift("denorm sldq", d_exp, TRUE, vec_sldq(p_sig_h, p_sig_l, d_exp)),
            Shift("denorm slq", d_exp, TRUE, vec_slq(p_sig_l, d_exp))}
      ELSE {}

\* vec_sldq (p_sig_h, p_sig_l, l_exp) and vec_srq (p_sig_h, x_exp) of a tiny
\* product that is not too tiny
xsmulqpo_tiny_shifts(p_sig_h, p_sig_l, q_exp) ==
  LET exp_min == vec_splat_u64(1)
      exp_dnrm == q_zero
      exp_128 == vec_const64_f128_128
      too_tiny == vec_splat_u64(116)
      xmask == vec_srqi(q_ones, 3)
      x_exp == vec_subudm(exp_min, q_exp)
      tt_or == vec_or(vec_srqi(p_sig_l, 8), p_sig_h)
      tt_l == vec_andc(vec_adduqm(tt_or, xmask), xmask)
      tmp == vec_adduqm(vec_and(p_sig_l, xmask), xmask)
      nt_x == vec_andc(vec_or(p_sig_l, tmp), xmask)
      l_exp == vec_subudm(exp_128, x_exp)
      nt_l == vec_sldq(p_sig_h, nt_x, l_exp)
      nt_h == vec_srq(p_sig_h, x_exp)
  IN  IF vec_cmpsd_all_lt(q_exp, exp_min)
      THEN IF vec_cmpud_all_gt(x_exp, too_tiny)
           THEN xsmulqpo_denorm_shifts(p_sig_h, tt_l, exp_dnrm)
           ELSE {Shift("tiny sldq", l_exp, TRUE, nt_l),
                 Shift("tiny srq", x_exp, TRUE, nt_h)}
                \cup xsmulqpo_denorm_shifts(nt_h, nt_l, exp_dnrm)
      ELSE xsmulqpo_denorm_shifts(p_sig_h, p_sig_l, q_exp)

xsmulqpo_carry_shifts(p_sig_h, p_sig_l, q_exp) ==
  LET exp_one == vec_splat_u64(1)
      sig_l_mask == vec_splat_u16(1)
      t_sig == vec_splat(p_sig_h, VEC_HW_H, 16)
      carry_mask == vec_cmpgt(t_sig, sig_l_mask, 16)
      p_tmp == vec_sldqi(p_sig_h, p_sig_l, 120)
      sig_h == vec_srqi(p_sig_h, 1)
      sig_l == vec_slqi(p_tmp, 7)
      x_exp == vec_addudm(q_exp, exp_one)
  IN  xsmulqpo_tiny_shifts(vec_seluq(p_sig_h, sig_h, carry_mask),
                           vec_seluq(p_sig_l, sig_l, carry_mask),
                           vec_selud(q_exp, x_exp, carry_mask))

xsmulqpo_product_shifts(a_sig, b_sig, p, x_exp) ==
  IF vec_all_eq(a_sig, q_zero, 32) \/ vec_all_eq(b_sig, q_zero, 32)
  THEN {}
  ELSE xsmulqpo_carry_shifts(p.h, p.l, xsmulqpo_exp(x_exp))

vec_xsmulqpo_shifts(a, b) ==
  LET exp_naninf == vec_mask64_f128exp
      magmask == vec_mask128_f128mag
      x_exp == vec_xxxexpqpp(a, b)
      a_mag == vec_and_bin128_2_vui32t(a, magmask)
      b_mag == vec_and_bin128_2_vui32t(b, magmask)
      a_sig == xsmulqpo_sig(a, a_mag)
      b_sig == xsmulqpo_sig(b, b_mag)
  IN  IF vec_cmpud_all_lt(x_exp, exp_naninf)
      THEN xsmulqpo_product_shifts(a_sig, b_sig, vec_muludq(a_sig, b_sig), x_exp)
      ELSE {}

\* vec_srq (q_sig, q_delta) of a result in the subnormal range of double
vec_xscvqpdpo_shifts(f128) ==
  LET exp_tiny == CONST_VINT64_DW(15361, 15361)
      exp_tinyr == CONST_VINT64_DW(15308, 15308)
      q_naninf == CONST_VINT64_DW(32767, 32767)
      x_exp == vec_splatd(vec_xsxexpqp(f128), VEC_DW_H)
      q_sig == vec_slqi(vec_xsxsigqp(f128), 4)
      q_delta == vec_subudm(exp_tiny, x_exp)
  IN  IF ~vec_cmpud_all_eq(x_exp, q_naninf) /\ ~vec_cmpud_all_ge(x_exp, exp_tiny)
         /\ vec_cmpud_all_gt(x_exp, exp_tinyr)
      THEN {Shift("qpdpo srq", q_delta, TRUE, vec_srq(q_sig, q_delta))}
      ELSE {}

\* vec_srq (q_sig, q_delta) of a value in 1 .. 2**128 - 1
vec_xscvqpuqz_shifts(f128) ==
  LET exp_low == CONST_VINT64_DW(16383, 16383)
      exp_high == CONST_VINT64_DW(16383 + 128, 16383 + 128)
      exp_127 == CONST_VINT64_DW(16383 + 127, 16383 + 127)
      q_naninf == CONST_VINT64_DW(32767, 32767)
      x_exp == vec_splatd(vec_xsxexpqp(f128), VEC_DW_H)
      q_sig == vec_slqi(vec_xsxsigqp(f128), 15)
      q_delta == vec_subudm(exp_127, x_exp)
  IN  IF ~vec_cmpud_all_eq(x_exp, q_naninf) /\ vec_cmpud_all_ge(x_exp, exp_low)
         /\ vec_cmpud_all_eq(vec_setb_qp(f128), q_zero)
         /\ vec_cmpud_all_lt(x_exp, exp_high)
      THEN {Shift("qpuqz srq", q_delta, TRUE, vec_srq(q_sig, q_delta))}
      ELSE {}

\* vec_slq (q_sig, i64_clz) of a nonzero integer
vec_xscvuqqp_shifts(int128) ==
  LET i64_clz == vec_clzq(int128)
  IN  IF vec_cmpuq_all_eq(int128, q_zero) THEN {}
      ELSE {Shift("uqqp slq", i64_clz, TRUE, vec_slq(int128, i64_clz))}

\* vec_slq (q_sig, i64_clz) of the magnitude of a nonzero integer
vec_xscvsqqp_shifts(int128) ==
  LET q_sig0 == vec_seluq(int128, vec_negsq(int128), vec_setb_sq(int128))
      i64_clz == vec_clzq(q_sig0)
  IN  IF vec_cmpuq_all_eq(int128, q_zero) THEN {}
      ELSE {Shift("sqqp slq", i64_clz, TRUE, vec_slq(q_sig0, i64_clz))}

\* the operand i, the count j and the expected value e of the vec_srq checks
\* of test_46 with counts 128 and 129
test_46 ==
  {[i |-> QW, j |-> BitsAt(128, 0), e |-> QW],
   [i |-> QW, j |-> BitsAt(129, 0), e |-> 0..126]}

(***************************************************************************)
(* The binary128 value of a register, and the exact results the            *)
(* operations are measured against.  A finite value is                     *)
(* (-1)^sign * F128Sig * 2^(F128Exp - 16383 - 112).                        *)
(***************************************************************************)
F128Sign(v) == IF 127 \in v THEN 1 ELSE 0

F128BExp(v) == NatOf(Field(v, 112, 15))

F128Frac(v) == v \cap (0..111)

IsNaN(v) == F128BExp(v) = 32767 /\ F128Frac(v) # {}

IsInf(v) == F128BExp(v) = 32767 /\ F128Frac(v) = {}

IsFinite(v) == F128BExp(v) < 32767

IsZero(v) == v \cap (0..126) = {}

\* the significand with its implicit bit, and the exponent that scales it
F128Sig(v) == F128Frac(v) \cup (IF F128BExp(v) > 0 THEN {112} ELSE {})

F128Exp(v) == IF F128BExp(v) = 0 THEN 1 ELSE F128BExp(v)

\* exact x + y and x - y (x >= y) of naturals of any width
ByteLen(x, y) == (MaxOf(x \cup y \cup {0}) \div 8) + 2

ExactSum(x, y) == AddRange(x, y, 0, ByteLen(x, y), 0).s

ExactDiff(x, y) ==
  LET n == ByteLen(x, y)
  IN  AddRange(x, (0..(8 * n - 1)) \ y, 0, n, 1).s

\* the operands' significands on the grid of the smaller exponent
AlignedSig(v, w) ==
  LET emin == IF F128Exp(v) < F128Exp(w) THEN F128Exp(v) ELSE F128Exp(w)
  IN  ShiftUp(F128Sig(v), F128Exp(v) - emin)

\* magnitude and sign of the exact sum a + b of finite a, b
SumMag(a, b) ==
  LET A == AlignedSig(a, b)
      B == AlignedSig(b, a)
  IN  IF F128Sign(a) = F128Sign(b) THEN ExactSum(A, B)
      ELSE IF LtBits(A, B) THEN ExactDiff(B, A)
      ELSE ExactDiff(A, B)

SumSign(a, b) ==
  IF F128Sign(a) # F128Sign(b) /\ LtBits(AlignedSig(a, b), AlignedSig(b, a))
  THEN F128Sign(b) ELSE F128Sign(a)

SumExp(a, b) == IF F128Exp(a) < F128Exp(b) THEN F128Exp(a) ELSE F128Exp(b)

\* the exact product of finite a, b is ProdMag * 2^(ProdExp - 16383 - 112)
ProdMag(a, b) == MulBits(F128Sig(a), F128Sig(b), 15)

ProdExp(a, b) == F128Exp(a) + F128Exp(b) - 16383 - 112

\* The biased exponent of the nonzero value X * 2^(e0 - 16383 - 112) once
\* its leading bit is the implicit bit; below 1 the value is subnormal.
RoundedExp(X, e0) == e0 + MaxOf(X) - 112

\* the bits of X that a shift right by t drops
Dropped(X, t) == {i \in X : i < t}

\* X moved by t positions: up when t > 0, truncating down when t < 0
Scaled(X, t) == IF t >= 0 THEN ShiftUp(X, t) ELSE ShiftDown(X, 0 - t)

\* X * 2^(e0 - 16383 - 112), X # 0, truncated onto the binary128 grid with
\* the last fraction bit set when a one bit was dropped
RoundToOdd(sign, X, e0) ==
  LET e == RoundedExp(X, e0)
      t == IF e >= 1 THEN 112 - MaxOf(X) ELSE e0 - 1
      odd == IF Dropped(X, 0 - t) # {} THEN {0} ELSE {}
  IN  IF e >= 1
      THEN (IF sign = 1 THEN {127} ELSE {}) \cup BitsAt(e, 112)
           \cup (Scaled(X, t) \ {112}) \cup odd
      ELSE (IF sign = 1 THEN {127} ELSE {}) \cup Scaled(X, t) \cup odd

(***************************************************************************)
(* Operands.  Every specification starts a call with a pair of operands    *)
(* drawn from a bounded set and ends it with the returned register.        *)
(***************************************************************************)
Quad(sign, exp, frac) ==
  (IF sign = 1 THEN {127} ELSE {}) \cup BitsAt(exp, 112) \cup frac

\* the number of fraction patterns drawn from FracPat
NFrac == 5

FracPat == <<{}, {0}, 0..111, {111}, {0, 1, 2}, 1..111, {55, 56}, {1}>>

Fracs == {FracPat[i] : i \in 1..NFrac}

\* exponent differences 0..MaxDelta are all taken, greater ones sampled
MaxDelta == 4

\* biased exponents 0..MaxSmallExp are all paired with each other
MaxSmallExp == 2

FarDeltas == {111, 112, 113, 114, 115, 116, 117, 127, 128, 129, 200}

AddExps ==
  {<<16383, 16383 - d>> : d \in (0..MaxDelta) \cup FarDeltas}
  \cup {<<16383 - d, 16383>> : d \in (1..MaxDelta) \cup {113, 128}}
  \cup {<<x, y>> : x, y \in 0..MaxSmallExp}
  \cup {<<114, 0>>, <<116, 1>>, <<130, 0>>, <<0, 115>>}

\* the biased exponent of the product before normalisation is 8000 + 8383 + j
\* - 16383 = j: tiny, too tiny, and just normal products
TinyExps == {<<8000, 8383 + j>> : j \in ((0 - MaxDelta)..MaxDelta)
                                      \cup {-118, -117, -116, -115, -114, -113,
                                            -112, -111, -60}}

MulExps ==
  {<<16383, 16383>>, <<16383, 16384>>, <<20000, 10000>>}
  \cup TinyExps
  \cup {<<0, 16383 + k>> : k \in {0, 1, 2, 56, 111, 112, 113, 114}}
  \cup {<<16383, 0>>, <<16495, 0>>, <<0, 0>>, <<0, 100>>, <<1, 16383>>}

\* sums and products whose exponent passes, or just reaches, the greatest
\* finite one: 24575 + 24575 - 16383 = 32767
OvfExps ==
  {<<32766, 32766>>, <<32766, 32765>>, <<32765, 32766>>, <<32766, 32653>>,
   <<32766, 32600>>, <<24575, 24575>>, <<24575, 24574>>, <<24574, 24575>>,
   <<24576, 24575>>, <<24574, 24574>>}

PairsOf(exps) ==
  {<<Quad(sa, e[1], fa), Quad(sb, e[2], fb)>> :
     sa \in {0, 1}, sb \in {0, 1}, e \in exps, fa \in Fracs, fb \in Fracs}

AddPairs == PairsOf(AddExps)

MulPairs == PairsOf(MulExps)

OvfPairs == PairsOf(OvfExps)

\* NaNs (quiet and signalling, with payloads), infinities, zeros, and finite
\* values of every class, of both signs
SpecialVals ==
  {Quad(s, 32767, f) : s \in {0, 1}, f \in {{}, {111}, {0}, {110, 5}, {111, 3}}}
  \cup {Quad(s, 0, f) : s \in {0, 1}, f \in {{}, {0}}}
  \cup {Quad(s, 16383, f) : s \in {0, 1}, f \in {{}, {111, 0}}}
  \cup {Quad(s, 32766, 0..111) : s \in {0, 1}}

SpecialPairs == SpecialVals \X SpecialVals

InitWith(pairs) ==
  /\ pc = "call"
  /\ op = "none"
  /\ \E p \in pairs : vfa = p[1] /\ vfb = p[2]
  /\ result = {}

Return(name, value) ==
  /\ pc = "call"
  /\ pc' = "ret"
  /\ op' = name
  /\ result' = value
  /\ UNCHANGED <<vfa, vfb>>

Xsaddqpo == Return("add", vec_xsaddqpo(vfa, vfb))

Xssubqpo == Return("sub", vec_xssubqpo(vfa, vfb))

Xsmulqpo == Return("mul", vec_xsmulqpo(vfa, vfb))

\* add over finite operands
InitAdd == InitWith(AddPairs)

NextAdd == Xsaddqpo

SpecAdd == InitAdd /\ [][NextAdd]_vars

\* subtract over finite and special operands
InitSub == InitWith(AddPairs \cup SpecialPairs)

NextSub == Xssubqpo

SpecSub == InitSub /\ [][NextSub]_vars

\* multiply over finite operands
InitMul == InitWith(MulPairs)

NextMul == Xsmulqpo

SpecMul == InitMul /\ [][NextMul]_vars

\* the three operations over operands at the top of the exponent range
InitOvf == InitWith(OvfPairs)

NextOvf == Xsaddqpo \/ Xssubqpo \/ Xsmulqpo

SpecOvf == InitOvf /\ [][NextOvf]_vars

\* the three operations over NaN, infinity, zero and finite operands
InitSpecial == InitWith(SpecialPairs)

NextSpecial == Xsaddqpo \/ Xssubqpo \/ Xsmulqpo

SpecSpecial == InitSpecial /\ [][NextSpecial]_vars

\* comparisons over zeros, subnormals, normals, infinities and NaNs
CmpExps == {0, 1, 32766, 32767}

CmpVals == {Quad(sg, e, f) : sg \in {0, 1}, e \in CmpExps, f \in Fracs}

Cmpequzqp == Return("cmpequz", vec_cmpequzqp(vfa, vfb))

Cmpequqp == Return("cmpequ", vec_cmpequqp(vfa, vfb))

Cmpgeuzqp == Return("cmpgeuz", vec_cmpgeuzqp(vfa, vfb))

Cmpgeuqp == Return("cmpgeu", vec_cmpgeuqp(vfa, vfb))

Cmpgtuzqp == Return("cmpgtuz", vec_cmpgtuzqp(vfa, vfb))

Cmpgtuqp == Return("cmpgtu", vec_cmpgtuqp(vfa, vfb))

Cmpleuzqp == Return("cmpleuz", vec_cmpleuzqp(vfa, vfb))

Cmpleuqp == Return("cmpleu", vec_cmpleuqp(vfa, vfb))

Cmpltuzqp == Return("cmpltuz", vec_cmpltuzqp(vfa, vfb))

Cmpltuqp == Return("cmpltu", vec_cmpltuqp(vfa, vfb))

Cmpneuzqp == Return("cmpneuz", vec_cmpneuzqp(vfa, vfb))

Cmpneuqp == Return("cmpneu", vec_cmpneuqp(vfa, vfb))

InitCmp == InitWith(CmpVals \X CmpVals)

NextCmp ==
  \/ Cmpequzqp \/ Cmpequqp \/ Cmpgeuzqp \/ Cmpgeuqp
  \/ Cmpgtuzqp \/ Cmpgtuqp \/ Cmpleuzqp \/ Cmpleuqp
  \/ Cmpltuzqp \/ Cmpltuqp \/ Cmpneuzqp \/ Cmpneuqp

SpecCmp == InitCmp /\ [][NextCmp]_vars

Returned(name) == pc = "ret" /\ op = name

BothFinite == IsFinite(vfa) /\ IsFinite(vfb)

SignBit(s) == IF s = 1 THEN {127} ELSE {}

XorSign(a, b) == (F128Sign(a) + F128Sign(b)) % 2

\* C1: vec_xsaddqpo of finite operands whose exact sum is nonzero and does
\* not overflow returns the exact sum rounded to odd: its sign, its magnitude
\* truncated onto the binary128 grid, the last fraction bit set exactly when
\* the sum is not representable.
C1_AddRoundToOdd ==
  Returned("add") /\ BothFinite
  => LET X == SumMag(vfa, vfb)
         e0 == SumExp(vfa, vfb)
     IN  X # {} /\ RoundedExp(X, e0) < 32767
         => result = RoundToOdd(SumSign(vfa, vfb), X, e0)

\* an inexact sum was returned: a bit shifted out during alignment survives
\* only as the last fraction bit
C1_Witness ==
  /\ Returned("add") /\ BothFinite
  /\ F128BExp(vfa) - F128BExp(vfb) = 113
  /\ F128Frac(vfb) = {0}
  /\ F128Sign(vfa) # F128Sign(vfb)
  /\ 0 \in result
  /\ result = RoundToOdd(SumSign(vfa, vfb), SumMag(vfa, vfb), SumExp(vfa, vfb))

\* C2: vec_xsmulqpo of finite operands whose product does not overflow
\* returns the exact product rounded to odd with the XOR of the signs; a
\* zero operand gives a zero with the XOR sign.
C2_MulRoundToOdd ==
  Returned("mul") /\ BothFinite
  => IF IsZero(vfa) \/ IsZero(vfb)
     THEN result = SignBit(XorSign(vfa, vfb))
     ELSE LET P == ProdMag(vfa, vfb)
              e0 == ProdExp(vfa, vfb)
          IN  RoundedExp(P, e0) < 32767
              => result = RoundToOdd(XorSign(vfa, vfb), P, e0)

\* a product too tiny for any fraction bit was returned as the least
\* subnormal, carrying the XOR sign
C2_Witness ==
  /\ Returned("mul") /\ BothFinite
  /\ ~IsZero(vfa) /\ ~IsZero(vfb)
  /\ RoundedExp(ProdMag(vfa, vfb), ProdExp(vfa, vfb)) < -116
  /\ F128Sign(vfa) # F128Sign(vfb)
  /\ result = {127, 0}

\* the reference negation, greatest finite magnitude and default quiet NaN
Negated(v) == IF 127 \in v THEN v \ {127} ELSE v \cup {127}

MaxFinite(sign) == Quad(sign, 32766, 0..111)

DefaultQNaN == Quad(0, 32767, {111})

Infinity(sign) == Quad(sign, 32767, {})

NoNaN == ~IsNaN(vfa) /\ ~IsNaN(vfb)

\* the exact result of a finite operation overflows: it is nonzero and its
\* rounded exponent is beyond the greatest finite one
Overflows(X, e0) == X # {} /\ RoundedExp(X, e0) >= 32767

\* C3: when the round-to-odd result exponent of vec_xsaddqpo, vec_xssubqpo
\* or vec_xsmulqpo of finite operands is 32767 or more, the result is the
\* greatest finite magnitude with the result's sign; no finite operands give
\* an infinity.
C3_OverflowToMax ==
  pc = "ret" /\ BothFinite
  => /\ ~IsInf(result)
     /\ op = "add" /\ Overflows(SumMag(vfa, vfb), SumExp(vfa, vfb))
        => result = MaxFinite(SumSign(vfa, vfb))
     /\ op = "sub" /\ Overflows(SumMag(vfa, Negated(vfb)), SumExp(vfa, vfb))
        => result = MaxFinite(SumSign(vfa, Negated(vfb)))
     /\ op = "mul" /\ Overflows(ProdMag(vfa, vfb), ProdExp(vfa, vfb))
        => result = MaxFinite(XorSign(vfa, vfb))

\* the greatest finite magnitudes of opposite signs were multiplied
C3_Witness ==
  /\ Returned("mul")
  /\ vfa = MaxFinite(0) /\ vfb = MaxFinite(1)
  /\ result = MaxFinite(1)

\* C4: vec_xsaddqpo and vec_xsmulqpo with a NaN operand return a with the
\* quiet bit set when a is a NaN, else b with the quiet bit set; sign and
\* payload are those of that operand.
C4_NaNPropagation ==
  pc = "ret" /\ op \in {"add", "mul"} /\ ~NoNaN
  => result = (IF IsNaN(vfa) THEN vfa ELSE vfb) \cup {111}

\* a negative signalling NaN second operand came back quiet from a multiply
\* by a number
C4_Witness ==
  /\ Returned("mul")
  /\ ~IsNaN(vfa) /\ IsNaN(vfb) /\ 111 \notin vfb /\ 127 \in vfb
  /\ result = vfb \cup {111}

\* C5: vec_xssubqpo with a NaN b and a non-NaN a returns b with the quiet bit
\* set and b's own sign; with a NaN a it returns a with the quiet bit set.
C5_SubNaNNotNegated ==
  Returned("sub") /\ ~NoNaN
  => result = (IF IsNaN(vfa) THEN vfa ELSE vfb) \cup {111}

\* a positive NaN was subtracted from a number and came back positive
C5_Witness ==
  /\ Returned("sub")
  /\ IsFinite(vfa) /\ IsNaN(vfb) /\ 127 \notin vfb
  /\ result = vfb \cup {111}

\* C6: without NaN operands, vec_xsaddqpo of infinities of opposite sign and
\* vec_xssubqpo of infinities of the same sign return the default quiet NaN;
\* in the other cases with an infinite operand the result is that infinity
\* with its effective sign (the first operand when both are infinite).
C6_InfinityAddSub ==
  pc = "ret" /\ op \in {"add", "sub"} /\ NoNaN /\ (IsInf(vfa) \/ IsInf(vfb))
  => LET b == IF op = "sub" THEN Negated(vfb) ELSE vfb
     IN  result = IF IsInf(vfa) /\ IsInf(b) /\ F128Sign(vfa) # F128Sign(b)
                  THEN DefaultQNaN
                  ELSE IF IsInf(vfa) THEN Infinity(F128Sign(vfa))
                  ELSE Infinity(F128Sign(b))

\* +Infinity and -Infinity were added
C6_Witness ==
  /\ Returned("add")
  /\ vfa = Infinity(0) /\ vfb = Infinity(1)
  /\ result = DefaultQNaN

\* C7: without NaN operands, vec_xsmulqpo of an infinity and a zero returns
\* the default quiet NaN, and of an infinity and an infinity or a nonzero
\* finite value the infinity with the XOR of the signs.
C7_InfinityMul ==
  Returned("mul") /\ NoNaN /\ (IsInf(vfa) \/ IsInf(vfb))
  => result = IF IsZero(vfa) \/ IsZero(vfb) THEN DefaultQNaN
              ELSE Infinity(XorSign(vfa, vfb))

\* -0 was multiplied by +Infinity
C7_Witness ==
  /\ Returned("mul")
  /\ vfa = {127} /\ vfb = Infinity(0)
  /\ result = DefaultQNaN

\* C8: vec_xsaddqpo of finite operands whose exact sum is zero returns +0
\* when the signs differ and the zero of the common sign when they agree.
C8_ZeroSum ==
  Returned("add") /\ BothFinite /\ SumMag(vfa, vfb) = {}
  => result = IF F128Sign(vfa) # F128Sign(vfb) THEN {} ELSE SignBit(F128Sign(vfa))

\* a negative nonzero x and -x were added
C8_Witness ==
  /\ Returned("add") /\ BothFinite
  /\ ~IsZero(vfa) /\ 127 \in vfa /\ vfb = Negated(vfa)
  /\ result = {}

\* C9: for every a and every b that is not a NaN, vec_xssubqpo(a, b) is
\* vec_xsaddqpo(a, vec_negf128(b)), bit for bit.
C9_SubIsAddNegated ==
  Returned("sub") /\ ~IsNaN(vfb)
  => result = vec_xsaddqpo(vfa, vec_negf128(vfb))

\* an infinity was subtracted from a finite value
C9_Witness ==
  /\ Returned("sub")
  /\ IsFinite(vfa) /\ IsInf(vfb)
  /\ result = Negated(vfb)
  /\ result = vec_xsaddqpo(vfa, vec_negf128(vfb))

\* the order of the extended-real values of non-NaN a, b: both zeros are one
\* value, an infinity is beyond every finite magnitude
MagLt(a, b) ==
  IF IsInf(a) THEN FALSE
  ELSE IF IsInf(b) THEN TRUE
  ELSE \/ F128Exp(a) < F128Exp(b)
       \/ F128Exp(a) = F128Exp(b) /\ LtBits(F128Sig(a), F128Sig(b))

RealLt(a, b) ==
  IF IsZero(a) /\ IsZero(b) THEN FALSE
  ELSE IF F128Sign(a) # F128Sign(b) THEN F128Sign(a) = 1
  ELSE IF F128Sign(a) = 0 THEN MagLt(a, b)
  ELSE MagLt(b, a)

RealEq(a, b) == ~RealLt(a, b) /\ ~RealLt(b, a)

\* the relation a comparison of either family decides
Relation(name, a, b) ==
  CASE name \in {"cmpequz", "cmpequ"} -> RealEq(a, b)
    [] name \in {"cmpneuz", "cmpneu"} -> ~RealEq(a, b)
    [] name \in {"cmpltuz", "cmpltu"} -> RealLt(a, b)
    [] name \in {"cmpleuz", "cmpleu"} -> ~RealLt(b, a)
    [] name \in {"cmpgtuz", "cmpgtu"} -> RealLt(b, a)
    [] name \in {"cmpgeuz", "cmpgeu"} -> ~RealLt(a, b)

CmpNames ==
  {"cmpequz", "cmpequ", "cmpneuz", "cmpneu", "cmpltuz", "cmpltu",
   "cmpleuz", "cmpleu", "cmpgtuz", "cmpgtu", "cmpgeuz", "cmpgeu"}

\* C10: for non-NaN a, b every comparison of the zero-unordered and of the
\* IEEE unordered family returns all ones when its relation holds between
\* the extended-real values of a and b, and all zeros when it does not.
C10_CompareNonNaN ==
  pc = "ret" /\ op \in CmpNames /\ NoNaN
  => result = IF Relation(op, vfa, vfb) THEN QW ELSE {}

\* a negative subnormal was found below -0 by the IEEE unordered less-than
C10_Witness ==
  /\ Returned("cmpltu")
  /\ vfa = Quad(1, 0, {0}) /\ vfb = {127}
  /\ result = QW

(***************************************************************************)
(* The IEEE unordered family with NaN operands.                            *)
(***************************************************************************)
\* an int result, held in the result register as the bits of the integer
IntBits(b) == IF b THEN BitsAt(1, 0) ELSE {}

Cmpqp_all_eq == Return("all_eq", IntBits(vec_cmpqp_all_eq(vfa, vfb)))

Cmpqp_all_ge == Return("all_ge", IntBits(vec_cmpqp_all_ge(vfa, vfb)))

Cmpqp_all_gt == Return("all_gt", IntBits(vec_cmpqp_all_gt(vfa, vfb)))

Cmpqp_all_le == Return("all_le", IntBits(vec_cmpqp_all_le(vfa, vfb)))

Cmpqp_all_lt == Return("all_lt", IntBits(vec_cmpqp_all_lt(vfa, vfb)))

Cmpqp_all_ne == Return("all_ne", IntBits(vec_cmpqp_all_ne(vfa, vfb)))

\* NaNs of both signs, quiet and signalling, with and without payload
NaNVals ==
  {Quad(s, 32767, f) : s \in {0, 1},
                       f \in {{111}, {0}, {111, 0}, {110}, 0..111, 0..110}}

\* the IEEE unordered comparisons, mask and int forms, over pairs holding at
\* least one NaN and pairs holding none
InitUnord ==
  InitWith((NaNVals \X (NaNVals \cup CmpVals)) \cup (CmpVals \X NaNVals)
           \cup (SpecialVals \X SpecialVals))

NextUnord ==
  \/ Cmpequqp \/ Cmpgeuqp \/ Cmpgtuqp \/ Cmpleuqp \/ Cmpltuqp \/ Cmpneuqp
  \/ Cmpqp_all_eq \/ Cmpqp_all_ge \/ Cmpqp_all_gt \/ Cmpqp_all_le
  \/ Cmpqp_all_lt \/ Cmpqp_all_ne

SpecUnord == InitUnord /\ [][NextUnord]_vars

\* C11: in the IEEE unordered family, when either operand is a NaN (any sign,
\* quiet or signalling), eq, lt, gt, le and ge return false (all zeros from
\* the mask forms, 0 from the int forms) and not-equal returns true (all
\* ones, 1); equal is false even for two identical NaN patterns.
C11_UnorderedNaN ==
  pc = "ret" /\ ~NoNaN
  => /\ op \in {"cmpequ", "cmpltu", "cmpgtu", "cmpleu", "cmpgeu"} => result = {}
     /\ op \in {"all_eq", "all_lt", "all_gt", "all_le", "all_ge"} => result = {}
     /\ op = "cmpneu" => result = QW
     /\ op = "all_ne" => result = {0}

\* a negative signalling NaN was compared equal with itself and came out
\* unequal
C11_Witness ==
  /\ Returned("all_eq")
  /\ IsNaN(vfa) /\ vfb = vfa /\ 127 \in vfa /\ 111 \notin vfa
  /\ result = {}

(***************************************************************************)
(* Signed zeros in the three families, and the total order.                *)
(***************************************************************************)
Cmpeqtoqp == Return("cmpeqto", vec_cmpeqtoqp(vfa, vfb))

Cmpgttoqp == Return("cmpgtto", vec_cmpgttoqp(vfa, vfb))

Cmplttoqp == Return("cmpltto", vec_cmplttoqp(vfa, vfb))

\* every mask comparison of the three families over zeros, NaNs, infinities
\* and finite values
InitZeros == InitWith(SpecialPairs)

NextZeros == NextCmp \/ Cmpeqtoqp \/ Cmpgttoqp \/ Cmplttoqp

SpecZeros == InitZeros /\ [][NextZeros]_vars

BothZero == IsZero(vfa) /\ IsZero(vfb)

\* C12: in the zero-unordered and the IEEE unordered family +0 and -0 compare
\* equal in both operand orders (eq, le, ge all ones; ne, lt, gt all zeros);
\* in the total-order family -0 is strictly below +0: lt(-0, +0) and
\* gt(+0, -0) are all ones, eq(-0, +0) is all zeros.
C12_SignedZeros ==
  pc = "ret" /\ BothZero /\ vfa # vfb
  => /\ op \in {"cmpequz", "cmpequ", "cmpleuz", "cmpleu", "cmpgeuz", "cmpgeu"}
        => result = QW
     /\ op \in {"cmpneuz", "cmpneu", "cmpltuz", "cmpltu", "cmpgtuz", "cmpgtu"}
        => result = {}
     /\ op = "cmpeqto" => result = {}
     /\ op = "cmpltto" => result = IF vfa = {127} THEN QW ELSE {}
     /\ op = "cmpgtto" => result = IF vfa = {} THEN QW ELSE {}

\* -0 was found below +0 by the total-order less-than
C12_Witness ==
  /\ Returned("cmpltto")
  /\ vfa = {127} /\ vfb = {}
  /\ result = QW

\* the total-order comparisons over zeros, subnormals, normals, infinities
\* and NaNs
TotalVals == CmpVals \cup NaNVals

InitTotal == InitWith(TotalVals \X TotalVals)

NextTotal == Cmpeqtoqp \/ Cmpgttoqp \/ Cmplttoqp

SpecTotal == InitTotal /\ [][NextTotal]_vars

\* a precedes b in sign-magnitude order: a negative pattern is below every
\* positive one, among positives the smaller magnitude is below, among
\* negatives the greater
SignMagLt(a, b) ==
  IF (127 \in a) # (127 \in b) THEN 127 \in a
  ELSE IF 127 \in a THEN LtBits(b \ {127}, a \ {127})
  ELSE LtBits(a \ {127}, b \ {127})

\* C13: for every pair of patterns, NaNs, infinities and signed zeros
\* included, the total-order lt, eq and gt return all ones or all zeros,
\* exactly one of them all ones; eq only for identical patterns, lt exactly
\* when a precedes b in sign-magnitude order, gt when b precedes a.
C13_TotalOrder ==
  pc = "ret" /\ op \in {"cmpeqto", "cmpltto", "cmpgtto"}
  => LET lt == vec_cmplttoqp(vfa, vfb)
         eq == vec_cmpeqtoqp(vfa, vfb)
         gt == vec_cmpgttoqp(vfa, vfb)
     IN  /\ result = (CASE op = "cmpeqto" -> eq [] op = "cmpltto" -> lt
                        [] op = "cmpgtto" -> gt)
         /\ {lt, eq, gt} \subseteq {QW, {}}
         /\ Cardinality({r \in {"lt", "eq", "gt"} :
                           (CASE r = "lt" -> lt [] r = "eq" -> eq [] r = "gt" -> gt)
                           = QW}) = 1
         /\ (eq = QW) = (vfa = vfb)
         /\ (lt = QW) = SignMagLt(vfa, vfb)
         /\ (gt = QW) = SignMagLt(vfb, vfa)

\* a negative NaN was found below a negative infinity by the total-order
\* less-than
C13_Witness ==
  /\ Returned("cmpltto")
  /\ IsNaN(vfa) /\ 127 \in vfa /\ vfb = Infinity(1)
  /\ result = QW

(***************************************************************************)
(* Classification of one operand.                                          *)
(***************************************************************************)
Isfinitef128 == Return("isfinite", vec_isfinitef128(vfa))

Isinff128 == Return("isinf", vec_isinff128(vfa))

Isnanf128 == Return("isnan", vec_isnanf128(vfa))

Isnormalf128 == Return("isnormal", vec_isnormalf128(vfa))

Issubnormalf128 == Return("issubnormal", vec_issubnormalf128(vfa))

Iszerof128 == Return("iszero", vec_iszerof128(vfa))

All_isnanf128 == Return("all_isnan", IntBits(vec_all_isnanf128(vfa)))

\* biased exponents at both ends and in the middle of the range
ClassExps == {0, 1, 2, 16383, 32765, 32766, 32767}

ClassVals ==
  {Quad(sg, e, f) : sg \in {0, 1}, e \in ClassExps, f \in Fracs} \cup NaNVals

InitClass == InitWith(ClassVals \X {q_zero})

NextClass ==
  \/ Isfinitef128 \/ Isinff128 \/ Isnanf128 \/ Isnormalf128
  \/ Issubnormalf128 \/ Iszerof128 \/ All_isnanf128

SpecClass == InitClass /\ [][NextClass]_vars

ClassNames == {"isfinite", "isinf", "isnan", "isnormal", "issubnormal", "iszero"}

\* C14: for every pattern q of either sign each classification returns all
\* ones or all zeros, exactly one of iszero, issubnormal, isnormal, isinf,
\* isnan returns all ones, and isfinite is all ones exactly when one of the
\* first three is; exponent field 0 is subnormal with a nonzero fraction and
\* zero with a zero fraction.
C14_Classification ==
  pc = "ret" /\ op \in ClassNames
  => LET z == vec_iszerof128(vfa)
         s == vec_issubnormalf128(vfa)
         n == vec_isnormalf128(vfa)
         i == vec_isinff128(vfa)
         x == vec_isnanf128(vfa)
         f == vec_isfinitef128(vfa)
         byName == [iszero |-> z, issubnormal |-> s, isnormal |-> n,
                    isinf |-> i, isnan |-> x, isfinite |-> f]
     IN  /\ result = byName[op]
         /\ {z, s, n, i, x, f} \subseteq {QW, {}}
         /\ Cardinality({c \in ClassNames \ {"isfinite"} : byName[c] = QW}) = 1
         /\ (f = QW) = (z = QW \/ s = QW \/ n = QW)
         /\ F128BExp(vfa) = 0 => (s = QW) = (F128Frac(vfa) # {})
         /\ F128BExp(vfa) = 0 => (z = QW) = (F128Frac(vfa) = {})

\* a negative pattern with exponent field 0 and only the last fraction bit
\* set was classified subnormal
C14_Witness ==
  /\ Returned("issubnormal")
  /\ vfa = Quad(1, 0, {0})
  /\ result = QW

\* C15: vec_isnanf128 is all ones and vec_all_isnanf128 is 1 exactly when the
\* exponent field is 32767 and the fraction is nonzero, whatever the sign bit
\* and the quiet bit; otherwise all zeros and 0.
C15_IsNaN ==
  LET nan == F128BExp(vfa) = 32767 /\ F128Frac(vfa) # {}
  IN  /\ Returned("isnan") => result = IF nan THEN QW ELSE {}
      /\ Returned("all_isnan") => result = IF nan THEN {0} ELSE {}

\* a negative signalling NaN, the quiet bit clear, was reported a NaN by the
\* int form
C15_Witness ==
  /\ Returned("all_isnan")
  /\ 127 \in vfa /\ F128BExp(vfa) = 32767 /\ 111 \notin vfa /\ F128Frac(vfa) # {}
  /\ result = {0}

(***************************************************************************)
(* Quad-precision to double-precision.                                     *)
(***************************************************************************)
Xscvqpdpo == Return("cvqpdpo", vec_xscvqpdpo(vfa))

\* fraction patterns on both sides of the last double-precision fraction bit
\* (quad fraction bit 60)
DpFracs ==
  Fracs \cup {{59}, {60}, {60, 0}, 60..111, 59..111, {111, 60}, {111, 64, 8}}

\* biased exponents 15361 - d are the doubles 2**(-1022 - d): subnormal for
\* d >= 1, below the least subnormal for d >= 53; 17406 is 2**1023
QpDpExps ==
  {15361 - d : d \in 0..(MaxDelta + 2)}
  \cup {15361 - d : d \in {30, 48, 51, 52, 53, 54, 60}}
  \cup {0, 1, 2, 15362, 16383, 17405, 17406, 17407, 17408, 20000, 32766}

QpDpVals ==
  {Quad(sg, e, f) : sg \in {0, 1}, e \in QpDpExps, f \in DpFracs}
  \cup NaNVals \cup {Infinity(0), Infinity(1)}

InitQpDp == InitWith(QpDpVals \X {q_zero})

NextQpDp == Xscvqpdpo

SpecQpDp == InitQpDp /\ [][NextQpDp]_vars

\* a double in doubleword 0: sign, biased exponent, 52 fraction bits
Double(sign, exp, frac) ==
  SignBit(sign) \cup BitsAt(exp, 116) \cup ShiftUp(frac, 64)

MaxDouble(sign) == Double(sign, 2046, 0..51)

\* the biased double exponent of the nonzero value X * 2^(e0 - 16383 - 112)
\* once its leading bit is the implicit bit; below 1 the double is subnormal
DoubleExp(X, e0) == e0 + MaxOf(X) - 15472

\* X * 2^(e0 - 16383 - 112) truncated onto the binary64 grid (the least
\* subnormal is 2^-1074), the last fraction bit set when a one bit was
\* dropped
DoubleRoundToOdd(sign, X, e0) ==
  IF X = {} THEN SignBit(sign)
  ELSE LET e == DoubleExp(X, e0)
           t == IF e >= 1 THEN 52 - MaxOf(X) ELSE e0 - 15421
           odd == IF Dropped(X, 0 - t) # {} THEN {0} ELSE {}
       IN  IF e >= 1
           THEN Double(sign, e, (Scaled(X, t) \ {52}) \cup odd)
           ELSE Double(sign, 0, Scaled(X, t) \cup odd)

\* |q| is at most the largest finite double
FitsDouble(q) ==
  \/ F128BExp(q) < 17406
  \/ F128BExp(q) = 17406 /\ F128Frac(q) \subseteq 60..111

\* C16: for every finite q whose magnitude does not exceed the largest
\* finite double, vec_xscvqpdpo returns q rounded to odd on the binary64
\* grid, results subnormal in binary64 or below the least subnormal
\* included: sign kept, magnitude truncated, the last significand bit set
\* exactly when q is not representable in binary64.
C16_QpDpRoundToOdd ==
  Returned("cvqpdpo") /\ IsFinite(vfa) /\ FitsDouble(vfa)
  => result = DoubleRoundToOdd(F128Sign(vfa), F128Sig(vfa), F128Exp(vfa))

\* C17: for every finite q whose biased exponent exceeds 16383 + 1023
\* vec_xscvqpdpo returns the largest finite double with q's sign; the result
\* is a double infinity only for an infinite q.
C17_QpDpSaturates ==
  Returned("cvqpdpo")
  => /\ IsFinite(vfa) /\ F128BExp(vfa) > 17406
        => result = MaxDouble(F128Sign(vfa))
     /\ (result \ {127} = Double(0, 2047, {})) = IsInf(vfa)

\* the greatest finite quad, negative, came back as the greatest finite
\* double, negative
C17_Witness ==
  /\ Returned("cvqpdpo")
  /\ vfa = MaxFinite(1)
  /\ result = MaxDouble(1)

(***************************************************************************)
(* Double-precision to quad-precision.                                     *)
(***************************************************************************)
Xscvdpqp == Return("cvdpqp", vec_xscvdpqp(vfa))

\* double fraction patterns: none, the ends, the quiet bit, a few more
DFracs == {{}, {0}, {51}, 0..51, {51, 0}, {25, 3}, 0..50, {1}, {50}, 12..40}

DExps == {0, 1, 2, 1022, 1023, 1024, 2045, 2046, 2047}

\* doubleword 1 of the operand is not converted: clear, or set
DLows == {{}, 0..63, {0, 63}}

DpVals ==
  {Double(sg, e, f) \cup lo : sg \in {0, 1}, e \in DExps, f \in DFracs, lo \in DLows}

InitDpQp == InitWith(DpVals \X {q_zero})

NextDpQp == Xscvdpqp

SpecDpQp == InitDpQp /\ [][NextDpQp]_vars

\* the fields of the double in doubleword 0
F64Sign(v) == IF 127 \in v THEN 1 ELSE 0

F64BExp(v) == NatOf(Field(v, 116, 11))

F64Frac(v) == Field(v, 64, 52)

\* the double is X * 2^(F64Exp - 1023 - 52)
F64Sig(v) == F64Frac(v) \cup (IF F64BExp(v) > 0 THEN {52} ELSE {})

F64Exp(v) == IF F64BExp(v) = 0 THEN 1 ELSE F64BExp(v)

F64IsNaN(v) == F64BExp(v) = 2047 /\ F64Frac(v) # {}

\* C18: vec_xscvdpqp of a double d that is not a NaN is exact: the same
\* sign and the same real value (a normal double gives a normal quad with
\* the exponent rebased by 16383 - 1023, a subnormal double a normal quad,
\* a zero the zero of its sign, an infinity the infinity of its sign); a NaN
\* gives a NaN of the same sign whose top 52 fraction bits are d's fraction.
C18_DpQpExact ==
  Returned("cvdpqp")
  => /\ F128Sign(result) = F64Sign(vfa)
     /\ F64IsNaN(vfa)
        => /\ F128BExp(result) = 32767
           /\ F128Frac(result) = ShiftUp(F64Frac(vfa), 60)
     /\ F64BExp(vfa) = 2047 /\ F64Frac(vfa) = {}
        => result = Infinity(F64Sign(vfa))
     /\ F64BExp(vfa) < 2047
        => /\ IsFinite(result)
           /\ ShiftUp(F128Sig(result), F128Exp(result))
              = ShiftUp(F64Sig(vfa), F64Exp(vfa) + 15420)
           /\ F64Sig(vfa) = {} => result = SignBit(F64Sign(vfa))
           /\ F64Sig(vfa) # {} => F128BExp(result) > 0
           /\ F64BExp(vfa) > 0
              => /\ F128BExp(result) = F64BExp(vfa) + 15360
                 /\ F128Frac(result) = ShiftUp(F64Frac(vfa), 60)

\* the least subnormal double, negative, came back as the normal quad
\* -2**-1074
C18_Witness ==
  /\ Returned("cvdpqp")
  /\ Field(vfa, 64, 64) = {63, 0}
  /\ result = Quad(1, 16383 - 1074, {})

(***************************************************************************)
(* Doubleword integer to quad-precision.                                   *)
(***************************************************************************)
Xscvudqp == Return("cvudqp", vec_xscvudqp(vfa))

Xscvsdqp == Return("cvsdqp", vec_xscvsdqp(vfa))

\* 64-bit patterns: zero, single bits, runs of ones from bit 0, from bit 63,
\* a bit with bit 0
Int64Pats ==
  {{}} \cup {{k} : k \in 0..63} \cup {0..k : k \in 0..63}
  \cup {k..63 : k \in 0..63} \cup {{k, 0} : k \in 0..63}

Int64Vals == {ShiftUp(n, 64) \cup lo : n \in Int64Pats, lo \in DLows}

InitInt64 == InitWith(Int64Vals \X {q_zero})

NextInt64 == Xscvudqp \/ Xscvsdqp

SpecInt64 == InitInt64 /\ [][NextInt64]_vars

\* the least element of a nonempty set of bit positions
MinOf(S) == CHOOSE x \in S : \A y \in S : x <= y

\* the magnitude of the negative w-bit two's complement pattern n: the bits
\* up to the lowest one bit are kept, those above are complemented
NegMag(n, w) ==
  LET l == MinOf(n) IN {i \in 0..l : i \in n} \cup {i \in (l + 1)..(w - 1) : i \notin n}

\* the nonzero integer n (at most 113 significant bits) as a quad: exponent
\* 16383 + floor(log2 n), the bits below the leading one left-aligned
IntQuad(sign, n) ==
  LET m == MaxOf(n) IN Quad(sign, 16383 + m, ShiftUp(n \ {m}, 112 - m))

\* C20: vec_xscvudqp of an unsigned 64-bit n is exact: 0 gives the all-zero
\* pattern, n > 0 gives sign 0, exponent 16383 + floor(log2 n) and the bits
\* of n below its leading one left-aligned in the fraction; vec_xscvsdqp of a
\* signed 64-bit n gives the same encoding of |n| with the sign bit set when
\* n < 0, -2^63 included.
C20_Int64Exact ==
  LET n == Field(vfa, 64, 64)
  IN  /\ Returned("cvudqp")
         => result = IF n = {} THEN {} ELSE IntQuad(0, n)
      /\ Returned("cvsdqp")
         => result = IF n = {} THEN {}
                     ELSE IF 63 \in n THEN IntQuad(1, NegMag(n, 64))
                     ELSE IntQuad(0, n)

\* -2^63 came back as the quad -1.0 * 2^63
C20_Witness ==
  /\ Returned("cvsdqp")
  /\ Field(vfa, 64, 64) = {63}
  /\ result = Quad(1, 16383 + 63, {})

(***************************************************************************)
(* Quadword integer to quad-precision.                                     *)
(***************************************************************************)
Xscvuqqp == Return("cvuqqp", vec_xscvuqqp(vfa))

Xscvsqqp == Return("cvsqqp", vec_xscvsqqp(vfa))

\* patterns with the leading one at bit 127: the 113 significand bits are
\* bits 15..127, the guard bit is bit 14, the sticky bits are bits 0..13
TopPats ==
  {{127}, 0..127, 15..127, 14..127, 13..127, {127, 14}, {127, 15, 14},
   {127, 14, 0}, {127, 14, 13}, {127, 13}, {127} \cup (0..13), {127, 15},
   {127, 15, 13}, {127, 15, 14, 5}, {127, 0}, (16..127) \cup {14},
   (16..127) \cup {14, 13}, (16..127) \cup (0..13), {127, 64, 16, 15, 14}}

\* the numbers of leading zero bits the patterns are given
Int128Shifts == {0, 1, 2, 7, 13, 14, 15, 16, 17, 64, 100, 127}

Int128Mags == {ShiftDown(P, c) : P \in TopPats, c \in Int128Shifts}

\* zero, the magnitudes, and the two's complement patterns of the magnitudes
Int128Vals == {{}} \cup Int128Mags \cup {NegMag(n, 128) : n \in Int128Mags}

InitInt128 == InitWith(Int128Vals \X {q_zero})

NextInt128 == Xscvuqqp \/ Xscvsqqp

SpecInt128 == InitInt128 /\ [][NextInt128]_vars

\* the nonzero integer n rounded to nearest, ties to even, at 113
\* significant bits, as a quad
RoundNearestEven(sign, n) ==
  LET m == MaxOf(n)
      t == m - 112
  IN  IF t <= 0 THEN IntQuad(sign, n)
      ELSE LET trunc == ShiftDown(n, t)
               up == (t - 1) \in n /\ (t \in n \/ Dropped(n, t - 1) # {})
               r == IF up THEN ExactSum(trunc, {0}) ELSE trunc
           IN  IF 113 \in r THEN Quad(sign, 16383 + m + 1, {})
               ELSE Quad(sign, 16383 + m, r \ {112})

\* C19: vec_xscvuqqp of an unsigned 128-bit n is n rounded to nearest, ties
\* to even, at 113 significant bits (exact when n has at most 113), a
\* round-up that carries out of an all-ones significand incrementing the
\* exponent; vec_xscvsqqp of a signed 128-bit n is the same rounding of |n|
\* with the sign of n, -2^127 included.
C19_Int128RoundNearestEven ==
  /\ Returned("cvuqqp")
     => result = IF vfa = {} THEN {} ELSE RoundNearestEven(0, vfa)
  /\ Returned("cvsqqp")
     => result = IF vfa = {} THEN {}
                 ELSE IF 127 \in vfa THEN RoundNearestEven(1, NegMag(vfa, 128))
                 ELSE RoundNearestEven(0, vfa)

\* 2^128 - 1 was rounded up to 2^128
C19_Witness ==
  /\ Returned("cvuqqp")
  /\ vfa = QW
  /\ result = Quad(0, 16383 + 128, {})

(***************************************************************************)
(* Quad-precision to unsigned integer, truncating.                         *)
(***************************************************************************)
Xscvqpudz == Return("cvqpudz", vec_xscvqpudz(vfa))

Xscvqpuqz == Return("cvqpuqz", vec_xscvqpuqz(vfa))

\* exponents below 1.0, at 1.0, around 2^64, at the end of the fraction,
\* around 2^128, and the largest finite and the all-ones exponent
QpIntExps ==
  {0, 1, 16382, 16383, 16384, 16383 + 62, 16383 + 63, 16383 + 64, 16383 + 65,
   16383 + 112, 16383 + 113, 16383 + 126, 16383 + 127, 16383 + 128,
   16383 + 129, 32766, 32767}

QpIntVals == {Quad(s, e, f) : s \in {0, 1}, e \in QpIntExps, f \in Fracs}

InitQpInt == InitWith(QpIntVals \X {q_zero})

NextQpInt == Xscvqpudz \/ Xscvqpuqz

SpecQpInt == InitQpInt /\ [][NextQpInt]_vars

\* the value of the non-NaN q truncated toward zero and clamped to
\* [0, 2^W - 1], as a W-bit integer
TruncClamp(q, W) ==
  IF F128Sign(q) = 1 \/ F128BExp(q) < 16383 THEN {}
  ELSE IF F128BExp(q) >= 16383 + W THEN 0..(W - 1)
  ELSE Scaled(F128Sig(q), F128BExp(q) - 16383 - 112)

\* C22: for W = 64 (vec_xscvqpudz, result in doubleword 0, doubleword 1
\* zero) and W = 128 (vec_xscvqpuqz) a q that is not a NaN gives q truncated
\* toward zero and clamped to [0, 2^W - 1]: values >= 2^W and +Infinity give
\* all ones, negative values, -Infinity and magnitudes below 1 give 0; a NaN
\* of either sign gives 0.
C22_TruncateSaturate ==
  /\ Returned("cvqpudz")
     => result = IF IsNaN(vfa) THEN {} ELSE ShiftUp(TruncClamp(vfa, 64), 64)
  /\ Returned("cvqpuqz")
     => result = IF IsNaN(vfa) THEN {} ELSE TruncClamp(vfa, 128)

\* 2^64 itself saturated to the all-ones doubleword
C22_Witness ==
  /\ Returned("cvqpudz")
  /\ vfa = Quad(0, 16383 + 64, {})
  /\ result = 64..127

(***************************************************************************)
(* Unsigned integer to quad-precision and back.                            *)
(***************************************************************************)
Xscvudqp_Xscvqpudz == Return("cvudqp_cvqpudz", vec_xscvqpudz(vec_xscvudqp(vfa)))

Xscvuqqp_Xscvqpuqz == Return("cvuqqp_cvqpuqz", vec_xscvqpuqz(vec_xscvuqqp(vfa)))

\* the integer n has at most 113 significant bits
Within113(n) == n = {} \/ MaxOf(n) - MinOf(n) <= 112

RoundTripVals == Int64Vals \cup Int128Mags \cup {{}}

InitRoundTrip == InitWith(RoundTripVals \X {q_zero})

NextRoundTrip == Xscvudqp_Xscvqpudz \/ Xscvuqqp_Xscvqpuqz

SpecRoundTrip == InitRoundTrip /\ [][NextRoundTrip]_vars

\* C21: for every unsigned 64-bit n, doubleword 0 of
\* vec_xscvqpudz(vec_xscvudqp(n)) is n; for every unsigned 128-bit n with at
\* most 113 significant bits, vec_xscvqpuqz(vec_xscvuqqp(n)) is n.
C21_IntRoundTrip ==
  /\ Returned("cvudqp_cvqpudz") => Field(result, 64, 64) = Field(vfa, 64, 64)
  /\ Returned("cvuqqp_cvqpuqz") /\ Within113(vfa) => result = vfa

\* the 113 leading ones of a quadword came back
C21_Witness ==
  /\ Returned("cvuqqp_cvqpuqz")
  /\ vfa = 15..127
  /\ result = vfa

(***************************************************************************)
(* Extract significand and exponent, insert exponent.                      *)
(***************************************************************************)
Xsxsigqp == Return("xsxsigqp", vec_xsxsigqp(vfa))

Xsxexpqp == Return("xsxexpqp", vec_xsxexpqp(vfa))

Xsiexpqp == Return("xsiexpqp", vec_xsiexpqp(vfa, vfb))

\* the parts of vfa taken apart and put together again
Xsiexpqp_Xsxsigqp ==
  Return("xsiexpqp_xsxsigqp",
         vec_xsiexpqp(vec_or(vec_xsxsigqp(vfa), vec_and(vfa, vec_mask128_f128sign)),
                      vec_xsxexpqp(vfa)))

Nabsf128 == Return("nabsf128", vec_nabsf128(vfa))

FieldExps == {0, 1, 16383, 32766, 32767}

FieldVals == {Quad(s, e, f) : s \in {0, 1}, e \in FieldExps, f \in Fracs}

\* exponent operands: doubleword 0 holds 0, 1, 0x3fff, 0x7fff, with and
\* without bits above the low 15 and bits in doubleword 1
ExpVals ==
  {{}, QW, BitsAt(1, 64), BitsAt(16383, 64), BitsAt(32767, 64), {79},
   BitsAt(16383, 64) \cup {79, 127} \cup (0..63), 0..63}

InitFields == InitWith(FieldVals \X ExpVals)

NextFields ==
  Xsxsigqp \/ Xsxexpqp \/ Xsiexpqp \/ Xsiexpqp_Xsxsigqp \/ Nabsf128

SpecFields == InitFields /\ [][NextFields]_vars

\* C23: vec_xsxsigqp(q) is the 112 fraction bits of q, sign and exponent
\* positions cleared, with bit 112 set exactly when the exponent field of q
\* is neither 0 nor 32767.
C23_Significand ==
  Returned("xsxsigqp")
  => result = F128Frac(vfa)
              \cup (IF F128BExp(vfa) \notin {0, 32767} THEN {112} ELSE {})

\* the least normal magnitude with an odd fraction came back with its
\* implicit bit
C23_Witness ==
  /\ Returned("xsxsigqp")
  /\ vfa = Quad(1, 1, {0})
  /\ result = {112, 0}

\* C24: vec_xsiexpqp(sig, exp) replaces exactly bits 126-112 of sig with the
\* low 15 bits of doubleword 0 of exp and leaves the sign bit and the 112
\* fraction bits of sig unchanged; so vec_xsiexpqp(vec_xsxsigqp(q) OR
\* sign bit of q, vec_xsxexpqp(q)) is q.
C24_InsertExponent ==
  /\ Returned("xsiexpqp")
     => result = (vfa \ (112..126)) \cup ShiftUp(Field(vfb, 64, 15), 112)
  /\ Returned("xsiexpqp_xsxsigqp") => result = vfa

\* a negative normal value with an even exponent field, whose extracted
\* significand carries the implicit bit, was put together again
C24_Witness ==
  /\ Returned("xsiexpqp_xsxsigqp")
  /\ vfa = Quad(1, 32766, 0..111)
  /\ result = vfa

\* C25: vec_nabsf128(q) has the exponent and fraction bits of q and the sign
\* bit set, whatever the sign of q.
C25_NegativeAbs == Returned("nabsf128") => result = vfa \cup {127}

(***************************************************************************)
(* Compare exponents.                                                      *)
(***************************************************************************)
Cmpqp_exp_eq == Return("cmpqp_exp_eq", IntBits(vec_cmpqp_exp_eq(vfa, vfb)))

Cmpqp_exp_gt == Return("cmpqp_exp_gt", IntBits(vec_cmpqp_exp_gt(vfa, vfb)))

Cmpqp_exp_lt == Return("cmpqp_exp_lt", IntBits(vec_cmpqp_exp_lt(vfa, vfb)))

Cmpqp_exp_unordered ==
  Return("cmpqp_exp_unordered", IntBits(vec_cmpqp_exp_unordered(vfa, vfb)))

InitCmpExp == InitWith(FieldVals \X FieldVals)

NextCmpExp == Cmpqp_exp_eq \/ Cmpqp_exp_gt \/ Cmpqp_exp_lt \/ Cmpqp_exp_unordered

SpecCmpExp == InitCmpExp /\ [][NextCmpExp]_vars

\* C26: vec_cmpqp_exp_unordered(vfa, vfb) returns 1 if either or both
\* operands are NaN, and 0 otherwise.
C26_ExpUnordered ==
  Returned("cmpqp_exp_unordered") => result = IntBits(IsNaN(vfa) \/ IsNaN(vfb))

\* C27: vec_cmpqp_exp_eq, _gt and _lt return 0 when either operand is NaN;
\* otherwise they return 1 exactly when the biased exponent field of vfa is
\* equal to, greater than, less than that of vfb, whatever the signs and
\* fractions.
C27_ExpCompare ==
  LET ordered == ~IsNaN(vfa) /\ ~IsNaN(vfb)
  IN  /\ Returned("cmpqp_exp_eq")
         => result = IntBits(ordered /\ F128BExp(vfa) = F128BExp(vfb))
      /\ Returned("cmpqp_exp_gt")
         => result = IntBits(ordered /\ F128BExp(vfa) > F128BExp(vfb))
      /\ Returned("cmpqp_exp_lt")
         => result = IntBits(ordered /\ F128BExp(vfa) < F128BExp(vfb))

(***************************************************************************)
(* Quadword add with carry.  The returned register holds the sum in bits   *)
(* 0..127 and the carry out above it, as the tests compare them.           *)
(***************************************************************************)
check_vint256(co, sum) == ShiftUp(co, 128) \cup sum

Addcq ==
  LET r == vec_addcq(vfa, vfb) IN Return("addcq", check_vint256(r.co, r.sum))

\* the carry in is part of the name the call is recorded under
AddeqName(ci) == IF ci = {} THEN "addeq_ci0" ELSE "addeq_ci1"

Addeq ==
  \E ci \in {{}, {0}} :
    LET r == vec_addeq(vfa, vfb, ci)
    IN  Return(AddeqName(ci), check_vint256(r.co, r.sum))

\* zero, one, the top bit, runs of ones that end or start at a byte or
\* doubleword boundary, all ones
Add128Vals ==
  {{}, {0}, {127}, QW, 0..126, 1..127, 0..63, 64..127, {64}, {63}, 0..7,
   8..127, {0, 64}}

Add128Pairs ==
  (Add128Vals \X Add128Vals)
  \cup {<<t.i, t.j>> : t \in test_addcq} \cup {<<t.i, t.j>> : t \in test_addeq}

InitAdd128 == InitWith(Add128Pairs)

NextAdd128 == Addcq \/ Addeq

SpecAdd128 == InitAdd128 /\ [][NextAdd128]_vars

\* the carry into bit k of a + b + c: a carry is generated at a position
\* below k (or comes in at bit 0) and propagated through every position
\* between
CarryInto(a, b, c, k) ==
  \/ c = 1 /\ \A n \in 0..(k - 1) : n \in a \cup b
  \/ \E g \in 0..(k - 1) :
       g \in a \cap b /\ \A n \in (g + 1)..(k - 1) : n \in a \cup b

\* a + b + c: bit k is the parity of the operands' bits and the carry into
\* it, the carry out of bit 127 is bit 128
WideSum(a, b, c) ==
  {k \in 0..127 : (k \in a) # ((k \in b) # CarryInto(a, b, c, k))}
  \cup (IF CarryInto(a, b, c, 128) THEN {128} ELSE {})

\* C28: vec_addcq(&co, a, b) returns (a + b) mod 2^128 with co = 1 exactly
\* when a + b >= 2^128; vec_addeq(&co, a, b, ci) with ci in {0, 1} returns
\* (a + b + ci) mod 2^128 with co the carry out, so co * 2^128 + result is
\* the exact sum; the sums and carries the tests expect are these.
C28_AddCarry ==
  /\ Returned("addcq")
     => /\ result = WideSum(vfa, vfb, 0)
        /\ \A t \in test_addcq :
             t.i = vfa /\ t.j = vfb => result = check_vint256(t.ec, t.e)
  /\ \A c \in {0, 1} :
       Returned(AddeqName(BitsAt(c, 0)))
       => /\ result = WideSum(vfa, vfb, c)
          /\ \A t \in test_addeq :
               t.i = vfa /\ t.j = vfb /\ t.l = BitsAt(c, 0)
               => result = check_vint256(t.ec, t.e)

\* 2 + (2^128 - 1) + 1 gave 2 and a carry out
C28_Witness ==
  /\ Returned("addeq_ci1")
  /\ vfa = {1}
  /\ vfb = QW
  /\ result = {128, 1}

(***************************************************************************)
(* The compares that return int against the compares that return a mask:   *)
(* each call returns both results for the same operands.                   *)
(***************************************************************************)
Both(all, mask) == [all |-> IntBits(all), mask |-> mask]

Cmpqp_all_toeq_Cmpeqtoqp ==
  Return("toeq", Both(vec_cmpqp_all_toeq(vfa, vfb), vec_cmpeqtoqp(vfa, vfb)))

Cmpqp_all_toge_Cmpgetoqp ==
  Return("toge", Both(vec_cmpqp_all_toge(vfa, vfb), vec_cmpgetoqp(vfa, vfb)))

Cmpqp_all_togt_Cmpgttoqp ==
  Return("togt", Both(vec_cmpqp_all_togt(vfa, vfb), vec_cmpgttoqp(vfa, vfb)))

Cmpqp_all_tole_Cmpletoqp ==
  Return("tole", Both(vec_cmpqp_all_tole(vfa, vfb), vec_cmpletoqp(vfa, vfb)))

Cmpqp_all_tolt_Cmplttoqp ==
  Return("tolt", Both(vec_cmpqp_all_tolt(vfa, vfb), vec_cmplttoqp(vfa, vfb)))

Cmpqp_all_tone_Cmpnetoqp ==
  Return("tone", Both(vec_cmpqp_all_tone(vfa, vfb), vec_cmpnetoqp(vfa, vfb)))

Cmpqp_all_uzeq_Cmpequzqp ==
  Return("uzeq", Both(vec_cmpqp_all_uzeq(vfa, vfb), vec_cmpequzqp(vfa, vfb)))

Cmpqp_all_uzge_Cmpgeuzqp ==
  Return("uzge", Both(vec_cmpqp_all_uzge(vfa, vfb), vec_cmpgeuzqp(vfa, vfb)))

Cmpqp_all_uzgt_Cmpgtuzqp ==
  Return("uzgt", Both(vec_cmpqp_all_uzgt(vfa, vfb), vec_cmpgtuzqp(vfa, vfb)))

Cmpqp_all_uzle_Cmpleuzqp ==
  Return("uzle", Both(vec_cmpqp_all_uzle(vfa, vfb), vec_cmpleuzqp(vfa, vfb)))

Cmpqp_all_uzlt_Cmpltuzqp ==
  Return("uzlt", Both(vec_cmpqp_all_uzlt(vfa, vfb), vec_cmpltuzqp(vfa, vfb)))

Cmpqp_all_uzne_Cmpneuzqp ==
  Return("uzne", Both(vec_cmpqp_all_uzne(vfa, vfb), vec_cmpneuzqp(vfa, vfb)))

Cmpqp_all_eq_Cmpequqp ==
  Return("ueq", Both(vec_cmpqp_all_eq(vfa, vfb), vec_cmpequqp(vfa, vfb)))

Cmpqp_all_ge_Cmpgeuqp ==
  Return("uge", Both(vec_cmpqp_all_ge(vfa, vfb), vec_cmpgeuqp(vfa, vfb)))

Cmpqp_all_gt_Cmpgtuqp ==
  Return("ugt", Both(vec_cmpqp_all_gt(vfa, vfb), vec_cmpgtuqp(vfa, vfb)))

Cmpqp_all_le_Cmpleuqp ==
  Return("ule", Both(vec_cmpqp_all_le(vfa, vfb), vec_cmpleuqp(vfa, vfb)))

Cmpqp_all_lt_Cmpltuqp ==
  Return("ult", Both(vec_cmpqp_all_lt(vfa, vfb), vec_cmpltuqp(vfa, vfb)))

Cmpqp_all_ne_Cmpneuqp ==
  Return("une", Both(vec_cmpqp_all_ne(vfa, vfb), vec_cmpneuqp(vfa, vfb)))

\* zero, the least subnormal, the least normal, the greatest finite,
\* infinity, signalling and quiet NaN, of both signs
RefineVals ==
  {Quad(s, e, f) : s \in {0, 1}, e \in {0, 1, 32766, 32767},
                   f \in {{}, {0}, {111}}}

InitRefine == InitWith(RefineVals \X RefineVals)

NextRefine ==
  \/ Cmpqp_all_toeq_Cmpeqtoqp \/ Cmpqp_all_toge_Cmpgetoqp
  \/ Cmpqp_all_togt_Cmpgttoqp \/ Cmpqp_all_tole_Cmpletoqp
  \/ Cmpqp_all_tolt_Cmplttoqp \/ Cmpqp_all_tone_Cmpnetoqp
  \/ Cmpqp_all_uzeq_Cmpequzqp \/ Cmpqp_all_uzge_Cmpgeuzqp
  \/ Cmpqp_all_uzgt_Cmpgtuzqp \/ Cmpqp_all_uzle_Cmpleuzqp
  \/ Cmpqp_all_uzlt_Cmpltuzqp \/ Cmpqp_all_uzne_Cmpneuzqp
  \/ Cmpqp_all_eq_Cmpequqp \/ Cmpqp_all_ge_Cmpgeuqp
  \/ Cmpqp_all_gt_Cmpgtuqp \/ Cmpqp_all_le_Cmpleuqp
  \/ Cmpqp_all_lt_Cmpltuqp \/ Cmpqp_all_ne_Cmpneuqp

SpecRefine == InitRefine /\ [][NextRefine]_vars

RefineNames ==
  {"toeq", "toge", "togt", "tole", "tolt", "tone",
   "uzeq", "uzge", "uzgt", "uzle", "uzlt", "uzne",
   "ueq", "uge", "ugt", "ule", "ult", "une"}

\* C29: for each of the 18 comparisons (eq, ne, lt, le, gt, ge in the
\* total-order, unordered-as-zero and unordered families) the form that
\* returns int returns 1 exactly when the form that returns a mask returns
\* all ones and 0 when it returns all zeros, and the mask is never mixed.
C29_IntRefinesMask ==
  pc = "ret" /\ op \in RefineNames
  => /\ result.mask \in {q_zero, q_ones}
     /\ result.all = IntBits(result.mask = q_ones)

\* -0.0 >= +0.0 in the total order: both forms said no
C29_Witness ==
  /\ Returned("toge")
  /\ vfa = {127}
  /\ vfb = {}
  /\ result = Both(FALSE, q_zero)

(***************************************************************************)
(* The variable shift counts of add, subtract, multiply and the            *)
(* conversions.                                                            *)
(***************************************************************************)
\* exponents that differ by 127, 128, 129, whose products are tiny by 1,
\* 116, 117 and 128, in and around the subnormal range of double, and from
\* 1.0 to 2**128
ShiftExps ==
  {0, 1, 2, 128, 129, 130, 8064, 8075, 8076, 8191, 8192, 15308, 15309, 15360,
   15361, 16383, 16510, 16511, 32766, 32767}

ShiftVals == {Quad(s, e, f) : s \in {0, 1}, e \in ShiftExps, f \in {{}, 0..111}}

\* the second operands
ShiftWith ==
  {Quad(s, e, f) : s \in {0, 1}, e \in {0, 1, 129, 8192, 16510, 32767},
                   f \in {{}, {0}}}

InitShift == InitWith(ShiftVals \X ShiftWith)

NextShift ==
  \/ Xsaddqpo \/ Xssubqpo \/ Xsmulqpo
  \/ Xscvqpdpo \/ Xscvqpuqz \/ Xscvuqqp \/ Xscvsqqp

SpecShift == InitShift /\ [][NextShift]_vars

\* the variable shifts the returned call executed
ShiftsOf ==
  CASE op = "add" -> vec_xsaddqpo_shifts(vfa, vfb)
    [] op = "sub" -> vec_xssubqpo_shifts(vfa, vfb)
    [] op = "mul" -> vec_xsmulqpo_shifts(vfa, vfb)
    [] op = "cvqpdpo" -> vec_xscvqpdpo_shifts(vfa)
    [] op = "cvqpuqz" -> vec_xscvqpuqz_shifts(vfa)
    [] op = "cvuqqp" -> vec_xscvuqqp_shifts(vfa)
    [] op = "cvsqqp" -> vec_xscvsqqp_shifts(vfa)
    [] OTHER -> {}

\* C30: in vec_xsaddqpo, vec_xssubqpo, vec_xsmulqpo and the conversions
\* every variable count of vec_srq, vec_slq, vec_sldq whose shifted value is
\* selected into the result is in 0..127, so that the primitives taking the
\* count modulo 128 (128 leaves the operand unchanged, 129 shifts by 1)
\* never alters a result; an alignment shift by 128 or more is not
\* selected, the significand is replaced by zero and the sticky bit.
C30_ShiftCounts ==
  /\ \A t \in test_46 : vec_srq(t.i, t.j) = t.e
  /\ pc = "ret"
     => \A s \in ShiftsOf :
          /\ s.used => s.count \subseteq 0..6
          /\ s.site = "align srq" /\ ~s.used
             => s.count \ (0..6) # {} /\ s.out = q_zero

\* 2**-16254 + 2**-16382: the alignment shift by 128 was executed, not
\* selected, and the sum is the greater operand with the sticky bit
C30_Witness ==
  /\ Returned("add")
  /\ vfa = Quad(0, 129, {})
  /\ vfb = Quad(0, 1, {})
  /\ [site |-> "align srq", count |-> {7}, used |-> FALSE, out |-> q_zero]
     \in ShiftsOf
  /\ result = Quad(0, 129, {0})

====
